---- MODULE Spec2Model ----
(***************************************************************************)
(* XBRL fact extraction of app/parsers/xbrl_parser.py: one document is     *)
(* parsed into one series of yearly points per configured metric.          *)
(*                                                                         *)
(* Conventions.  Python's Optional[T] is a tuple of length 0 or 1: <<>> is  *)
(* None and <<x>> a present x.  A text (an XML text node, a date string) is *)
(* a tuple of one-character strings, so that slicing, splitting and parsing *)
(* are computed character by character; lxml reports an element without    *)
(* text as None, which is the empty tuple here (both are falsy in Python).  *)
(* An XML attribute is an Optional string.                                  *)
(***************************************************************************)
EXTENDS Integers, Sequences, FiniteSets, TLC

VARIABLES
    nsmap,      \* root.nsmap after the filter of line 30: declared prefix -> URI
    ctxDecls,   \* the document's context elements, in document order
    unitDecls,  \* the document's unit elements, in document order
    facts,      \* the document's other elements (candidate facts), in document order
    pc,         \* position of parse_file: "contexts", "units", "scan", "done"
    contexts,   \* local `contexts` of parse_file: context id -> ContextInfo
    units,      \* local `units` of parse_file: unit id -> unit label
    todo,       \* the metrics the loop of line 35 has still to take, in order
    points,     \* local `points` of each metric scanned so far (before the merge)
    metrics,    \* local `metrics` of parse_file: metric -> merged series
    weekDates,  \* the interpreter's datetime.fromisoformat reads ISO week dates and
                \* the basic format (Python 3.11 and later) or YYYY-MM-DD alone
    files,      \* DataCache: the payload files under base_path, path -> payload
    now,        \* time.time(), in seconds
    cacheCall,  \* DataCache: the most recent get or set call and what it returned
    lastSet,    \* DataCache: the most recent set call of each key
    priceCode,  \* PriceService: the code handed to _to_yfinance_symbol
    pricePc,    \* PriceService: "call", then "returned" or "raised", then "again"
    symbol,     \* PriceService: what _to_yfinance_symbol returned
    symbolAgain, \* PriceService: what it returned for its own result
    recent,     \* FilingsFetcher: submissions["filings"]["recent"], a dict of lists
    secYears,   \* FilingsFetcher: the years argument of fetch_recent_filings
    secPc,      \* FilingsFetcher: "call", then "returned"
    secResult,  \* FilingsFetcher: the list fetch_recent_filings returned
    downloadLimit, \* FilingsFetcher: the limit download_filings was called with
    mapping,    \* FilingsFetcherJP: self.mapping, code -> entry of the mapping file
    hasCache,   \* FilingsFetcherJP: self.cache is a DataCache (over `files`), not None
    jpCode,     \* FilingsFetcherJP: the code argument of fetch_recent_filings
    jpYears,    \* FilingsFetcherJP: the years argument
    lastCall,   \* EdinetClient: the arguments of the latest list_documents call
    listing,    \* FilingsFetcherJP: local `rows`, what list_documents returned
    rowIdx,     \* FilingsFetcherJP: the index of the row the loop of line 64 takes next
    fetched,    \* FilingsFetcherJP: local `metrics` of fetch_recent_filings
    fetchPc,    \* FilingsFetcherJP: "call", "rows", then "returned" or "raised"
    fetchResult, \* FilingsFetcherJP: what fetch_recent_filings returned
    prevFetch,  \* FilingsFetcherJP: what the call before this one returned, if it
                \* had the same code and years and returned
    yoyInput,   \* compute_yoy: the metrics argument, metric -> series
    yoyPc,      \* compute_yoy: "call", then "returned"
    yoyResult,  \* compute_yoy: what it returned
    raceDir, \* DataCache under concurrency: the directory, file name -> inode
    raceInodes, \* the text of each inode, a tuple of characters
    raceNow, \* time.time(), in seconds
    raceProcs, \* the processes: the call each makes, its position, its locals and its outcome
    alertsFile, \* alerts: data/alerts.json, absent, truncated, not a list, or a list of alerts
    alertSeq, \* alerts: how many ids uuid4 has issued
    alertCall, \* alerts: the latest call made alone, its arguments, the alerts before it, what it returned
    alertProcs, \* alerts: the concurrent callers, the call each makes, its position and its locals
    portfolioFile, \* portfolio: data/portfolio.json, absent or a list of holdings
    portfolioSeq, \* portfolio: how many ids uuid4 has issued
    portfolioCall, \* portfolio: the latest call, its arguments, the file before it, its outcome
    edDays, \* EdinetClient: what the API lists for each day, by days before today
    edArgs, \* list_documents: code, form_codes, limit, use_security_code
    edPc, \* list_documents: "call", "loop", then "returned" or "raised"
    edResults, \* list_documents: local `results`
    edSeen, \* list_documents: local `seen_doc_ids`
    edOffset, \* list_documents: how many days current_date lies before today
    edMaxDays, \* list_documents: local `max_days`
    edFetched, \* list_documents: how many daily listings were fetched
    edReturn, \* list_documents: what it returned
    schedPieces, \* the pieces of --times between its commas
    schedTimes, \* schedule_times of main
    schedNow, \* now of main, a datetime in JST
    schedPc, \* where the scheduler is
    schedCandidates, \* candidates of next_run
    schedRunAt, \* run_at of main, if next_run returned
    schedRuns, \* how many times main has called run_alerts
    rsiTickers, \* tickers run_alerts is called with
    rsiConfig, \* what get_config returns
    rsiMarket, \* the latest RSI of each ticker, if its prices give one
    rsiPc, \* where run_alerts is
    rsiAlertMap, \* alert_map of run_alerts
    rsiList, \* tickers of run_alerts after line 95 or 97
    rsiMatches, \* matches of run_alerts
    rsiChecked, \* the calls of check_ticker so far
    rsiSent \* the messages handed to notifier.send so far

docVars == <<nsmap, ctxDecls, unitDecls, facts, pc, contexts, units, todo, points, metrics,
             weekDates>>
cacheVars == <<files, now, cacheCall, lastSet>>

priceVars == <<priceCode, pricePc, symbol, symbolAgain>>

secVars == <<recent, secYears, secPc, secResult, downloadLimit>>

fetchVars == <<mapping, hasCache, jpCode, jpYears, lastCall, listing, rowIdx, fetched,
               fetchPc, fetchResult, prevFetch>>

\* the state of the parser, the cache, the price service and the fetchers
earlierVars == <<docVars, cacheVars, priceVars, secVars, fetchVars>>

yoyVars == <<yoyInput, yoyPc, yoyResult>>

raceVars == <<raceDir, raceInodes, raceNow, raceProcs>>

alertVars == <<alertsFile, alertSeq, alertCall, alertProcs>>

portfolioVars == <<portfolioFile, portfolioSeq, portfolioCall>>

edinetVars == <<edDays, edArgs, edPc, edResults, edSeen, edOffset, edMaxDays,
                edFetched, edReturn>>

schedVars == <<schedPieces, schedTimes, schedNow, schedPc, schedCandidates, schedRunAt,
               schedRuns>>

rsiVars == <<rsiTickers, rsiConfig, rsiMarket, rsiPc, rsiAlertMap, rsiList, rsiMatches,
             rsiChecked, rsiSent>>

\* the state of the operations modelled after the fetchers
laterVars == <<yoyVars, raceVars, alertVars, portfolioVars, edinetVars, schedVars,
               rsiVars>>

\* what each of these operations leaves alone
notYoy == <<earlierVars, raceVars, alertVars, portfolioVars, edinetVars, schedVars,
            rsiVars>>
notRace == <<earlierVars, yoyVars, alertVars, portfolioVars, edinetVars, schedVars,
             rsiVars>>
notAlert == <<earlierVars, yoyVars, raceVars, portfolioVars, edinetVars, schedVars,
              rsiVars>>
notPortfolio == <<earlierVars, yoyVars, raceVars, alertVars, edinetVars, schedVars,
                  rsiVars>>
notEdinet == <<earlierVars, yoyVars, raceVars, alertVars, portfolioVars, schedVars,
               rsiVars>>
notSched == <<earlierVars, yoyVars, raceVars, alertVars, portfolioVars, edinetVars,
              rsiVars>>
notRsi == <<earlierVars, yoyVars, raceVars, alertVars, portfolioVars, edinetVars,
            schedVars>>

vars == <<earlierVars, laterVars>>

\* what parse_file leaves alone
notDoc == <<cacheVars, priceVars, secVars, fetchVars, laterVars>>

None == <<>>
Some(x) == <<x>>

Min(a, b) == IF a <= b THEN a ELSE b

\* Python's s[:n]
Take(s, n) == SubSeq(s, 1, Min(n, Len(s)))

\* the sequences of at most n elements of S
SeqsUpTo(S, n) == UNION {[1..k -> S] : k \in 0..n}

\* Python's dict.get(key): None when the key is missing
Get(map, key) == IF key \in DOMAIN map THEN Some(map[key]) ELSE None

\* Python's `attr or ""` for an attribute read with element.get(name)
OrEmpty(attr) == IF attr = None THEN "" ELSE attr[1]

(***************************************************************************)
(* Characters and number parsing                                           *)
(***************************************************************************)
Digits == {"0", "1", "2", "3", "4", "5", "6", "7", "8", "9"}

DigitVal(c) ==
    CASE c = "0" -> 0 [] c = "1" -> 1 [] c = "2" -> 2 [] c = "3" -> 3 [] c = "4" -> 4
      [] c = "5" -> 5 [] c = "6" -> 6 [] c = "7" -> 7 [] c = "8" -> 8 [] c = "9" -> 9

AllDigits(s) == \A i \in 1..Len(s) : s[i] \in Digits

RECURSIVE NatOf(_)
NatOf(s) == IF s = <<>> THEN 0 ELSE 10 * NatOf(SubSeq(s, 1, Len(s) - 1)) + DigitVal(s[Len(s)])

Whitespace == {" ", "\n"}

RECURSIVE LStrip(_)
LStrip(s) == IF s # <<>> /\ s[1] \in Whitespace THEN LStrip(Tail(s)) ELSE s

RECURSIVE RStrip(_)
RStrip(s) ==
    IF s # <<>> /\ s[Len(s)] \in Whitespace THEN RStrip(SubSeq(s, 1, Len(s) - 1)) ELSE s

Strip(s) == RStrip(LStrip(s))

\* the text without a leading sign, and the sign
Unsigned(s) == IF s # <<>> /\ s[1] \in {"+", "-"} THEN Tail(s) ELSE s
SignOf(s) == IF s # <<>> /\ s[1] = "-" THEN -1 ELSE 1

\* digits, with single underscores between digits (PEP 515)
GroupedDigits(b) ==
    /\ b # <<>>
    /\ \A i \in 1..Len(b) :
          \/ b[i] \in Digits
          \/ /\ b[i] = "_"
             /\ i > 1 /\ i < Len(b)
             /\ b[i - 1] \in Digits /\ b[i + 1] \in Digits

\* Python's int(text): surrounding whitespace, an optional sign, decimal digits
\* that single underscores may group.  None stands for the ValueError.
ParseInt(s) ==
    LET body == Unsigned(Strip(s))
    IN  IF GroupedDigits(body)
        THEN Some(SignOf(Strip(s)) * NatOf(SelectSeq(body, LAMBDA c : c \in Digits)))
        ELSE None


\* the index of the first c in s, 0 when there is none
RECURSIVE IndexOf(_, _, _)
IndexOf(s, c, i) == IF i > Len(s) THEN 0 ELSE IF s[i] = c THEN i ELSE IndexOf(s, c, i + 1)

\* a decimal m / 10^e without trailing fraction zeros, so that equal floats are equal
RECURSIVE Normal(_, _)
Normal(m, e) == IF e > 0 /\ m % 10 = 0 THEN Normal(m \div 10, e - 1) ELSE [m |-> m, e |-> e]

\* Python's float(text) on decimal literals: surrounding whitespace, an optional
\* sign, digits with at most one point and at least one digit.  None stands for
\* the ValueError.  The value m / 10^e is exact for the short texts used here.
ParseFloat(s) ==
    LET t    == Strip(s)
        body == Unsigned(t)
        dot  == IndexOf(body, ".", 1)
        ip   == IF dot = 0 THEN body ELSE SubSeq(body, 1, dot - 1)
        fp   == IF dot = 0 THEN <<>> ELSE SubSeq(body, dot + 1, Len(body))
    IN  IF AllDigits(ip) /\ AllDigits(fp) /\ Len(ip) + Len(fp) > 0
        THEN Some(Normal(SignOf(t) * NatOf(ip \o fp), Len(fp)))
        ELSE None

(***************************************************************************)
(* Year derivation                                                         *)
(***************************************************************************)
IsLeap(y) == y % 4 = 0 /\ (y % 100 # 0 \/ y % 400 = 0)

DaysInMonth(y, m) ==
    IF m = 2 THEN (IF IsLeap(y) THEN 29 ELSE 28)
    ELSE IF m \in {4, 6, 9, 11} THEN 30 ELSE 31

\* the year of a calendar date, None when there is no such date
CalendarYear(y, m, d) ==
    IF y \in 1..9999 /\ m \in 1..12 /\ d \in 1..DaysInMonth(y, m) THEN Some(y) ELSE None

\* the proleptic Gregorian ordinal of 1 January of year y (1 January of year 1
\* is day 1, a Monday)
Jan1(y) == (y - 1) * 365 + ((y - 1) \div 4) - ((y - 1) \div 100) + ((y - 1) \div 400) + 1

\* the ordinal of the Monday of ISO week 1 of year y, the week of 4 January
IsoWeek1Monday(y) ==
    LET firstweekday == (Jan1(y) + 6) % 7
        monday == Jan1(y) - firstweekday
    IN  IF firstweekday > 3 THEN monday + 7 ELSE monday

\* year y has an ISO week 53: it starts on a Thursday, or on a Wednesday when leap
HasWeek53(y) == Jan1(y) % 7 = 4 \/ (Jan1(y) % 7 = 3 /\ IsLeap(y))

\* the calendar year of day d of ISO week w of ISO year y, None when there is
\* no such day or it lies outside the years 1..9999
IsoWeekYear(y, w, d) ==
    IF y \notin 1..9999 \/ w \notin 1..53 \/ (w = 53 /\ ~HasWeek53(y)) \/ d \notin 1..7
    THEN None
    ELSE LET ord == IsoWeek1Monday(y) + (w - 1) * 7 + (d - 1)
         IN  IF ord < Jan1(y) THEN (IF y = 1 THEN None ELSE Some(y - 1))
             ELSE IF ord >= Jan1(y + 1) THEN (IF y = 9999 THEN None ELSE Some(y + 1))
                  ELSE Some(y)

\* datetime.fromisoformat(text).year for a text of at most 10 characters; None
\* stands for the ValueError.  Every interpreter reads YYYY-MM-DD.  Python 3.11
\* and later also read YYYYMMDD, the week dates YYYY-Www, YYYY-Www-D, YYYYWww
\* and YYYYWwwD, and YYYYWww followed by any character and an hour.
FromIsoFormatYear(s) ==
    LET n == Len(s)
        dig(i, j) == AllDigits(SubSeq(s, i, j))
        num(i, j) == NatOf(SubSeq(s, i, j))
    IN  CASE n = 10 /\ s[5] = "-" /\ s[6] # "W" ->
                 IF s[8] = "-" /\ dig(1, 4) /\ dig(6, 7) /\ dig(9, 10)
                 THEN CalendarYear(num(1, 4), num(6, 7), num(9, 10)) ELSE None
          [] weekDates /\ n = 10 /\ s[5] = "-" /\ s[6] = "W" ->
                 IF s[9] = "-" /\ dig(1, 4) /\ dig(7, 8) /\ dig(10, 10)
                 THEN IsoWeekYear(num(1, 4), num(7, 8), num(10, 10)) ELSE None
          [] weekDates /\ n = 10 /\ s[5] = "W" ->
                 IF dig(1, 4) /\ dig(6, 7) /\ dig(9, 10) /\ num(9, 10) < 24
                 THEN IsoWeekYear(num(1, 4), num(6, 7), 1) ELSE None
          [] weekDates /\ n = 8 /\ s[5] = "-" ->
                 IF s[6] = "W" /\ dig(1, 4) /\ dig(7, 8)
                 THEN IsoWeekYear(num(1, 4), num(7, 8), 1) ELSE None
          [] weekDates /\ n = 8 /\ s[5] = "W" ->
                 IF dig(1, 4) /\ dig(6, 8)
                 THEN IsoWeekYear(num(1, 4), num(6, 7), num(8, 8)) ELSE None
          [] weekDates /\ n = 8 /\ s[5] \notin {"-", "W"} ->
                 IF dig(1, 8) THEN CalendarYear(num(1, 4), num(5, 6), num(7, 8)) ELSE None
          [] weekDates /\ n = 7 ->
                 IF s[5] = "W" /\ dig(1, 4) /\ dig(6, 7)
                 THEN IsoWeekYear(num(1, 4), num(6, 7), 1) ELSE None
          [] OTHER -> None

_safe_year(value) ==
    LET iso == FromIsoFormatYear(Take(value, 10))
    IN  IF iso # None THEN iso ELSE ParseInt(Take(value, 4))

(***************************************************************************)
(* Context and unit tables                                                 *)
(***************************************************************************)
\* XbrliOf falling back on the standard instance namespace
XbrliOf_Default(ns) == Some("http://www.xbrl.org/2003/instance")

\* nsmap.get("xbrli")
XbrliOf(ns) == Get(ns, "xbrli")

\* root.findall(".//{namespace}name") on a list of elements: those of the
\* namespace, in document order
FindAll(elems, namespace) == SelectSeq(elems, LAMBDA el : el.ns = namespace)

\* ContextInfoOf looking at the instant date before the end date
ContextInfoOf_InstantFirst(context) ==
    LET period_elem == context.period
        end     == IF period_elem = None THEN None ELSE period_elem[1].endDate
        instant == IF period_elem = None THEN None ELSE period_elem[1].instant
    IN  IF instant # None /\ instant[1] # <<>>
        THEN [year |-> _safe_year(instant[1]), period_type |-> "instant"]
        ELSE IF end # None /\ end[1] # <<>>
             THEN [year |-> _safe_year(end[1]), period_type |-> "duration"]
             ELSE [year |-> None, period_type |-> "duration"]

\* lines 81-92: the ContextInfo of one context element
ContextInfoOf(context) ==
    LET period_elem == context.period
        end     == IF period_elem = None THEN None ELSE period_elem[1].endDate
        instant == IF period_elem = None THEN None ELSE period_elem[1].instant
    IN  IF end # None /\ end[1] # <<>>
        THEN [year |-> _safe_year(end[1]), period_type |-> "duration"]
        ELSE IF instant # None /\ instant[1] # <<>>
             THEN [year |-> _safe_year(instant[1]), period_type |-> "instant"]
             ELSE [year |-> None, period_type |-> "duration"]

\* the loop of lines 79-92: a later element overwrites an earlier one of the same id
RECURSIVE BuildContexts(_, _)
BuildContexts(found, acc) ==
    IF found = <<>> THEN acc
    ELSE BuildContexts(Tail(found),
                       (OrEmpty(Head(found).id) :> ContextInfoOf(Head(found))) @@ acc)

_build_context_map(decls, ns) ==
    LET xbrli == XbrliOf(ns)
    IN  IF xbrli = None THEN <<>> ELSE BuildContexts(FindAll(decls, xbrli[1]), <<>>)

\* AfterLastColon taking the part after the first colon
AfterLastColon_First(s) ==
    LET i == IndexOf(s, ":", 1)
    IN  IF i = 0 THEN s ELSE SubSeq(s, i + 1, Len(s))

\* Python's text.split(":")[-1]: the part after the last colon
RECURSIVE AfterLastColon(_)
AfterLastColon(s) ==
    LET i == IndexOf(s, ":", 1)
    IN  IF i = 0 THEN s ELSE AfterLastColon(SubSeq(s, i + 1, Len(s)))

\* the loop of lines 102-107
RECURSIVE BuildUnits(_, _)
BuildUnits(found, acc) ==
    IF found = <<>> THEN acc
    ELSE LET unit == Head(found)
             measure_elem == unit.measure
         IN  IF measure_elem = None \/ measure_elem[1] = <<>>
             THEN BuildUnits(Tail(found), acc)
             ELSE BuildUnits(Tail(found),
                             (OrEmpty(unit.id) :> AfterLastColon(measure_elem[1])) @@ acc)

_build_unit_map(decls, ns) ==
    LET xbrli == XbrliOf(ns)
    IN  IF xbrli = None THEN <<>> ELSE BuildUnits(FindAll(decls, xbrli[1]), <<>>)

(***************************************************************************)
(* Concept dictionary                                                      *)
(***************************************************************************)
\* concept.split(":", 1) of each identifier: <<prefix, local>>
METRIC_CONCEPTS_JP ==
    [revenue |->
        << <<"jpcrp030000-asr", "NetSales">>,
           <<"ifrs-full", "Revenue">> >>,
     operating_income |->
        << <<"jpcrp030000-asr", "OperatingIncome">> >>,
     net_income |->
        << <<"jpcrp030000-asr", "ProfitLossAttributableToOwnersOfParent">>,
           <<"ifrs-full", "ProfitLoss">> >>,
     operating_cash_flow |->
        << <<"jpcrp030000-asr", "NetCashProvidedByUsedInOperatingActivities">>,
           <<"ifrs-full", "NetCashFlowsFromUsedInOperatingActivities">> >>]

\* the iteration order of the dictionary: its insertion order
MetricOrder == <<"revenue", "operating_income", "net_income", "operating_cash_flow">>

MetricNames == {MetricOrder[i] : i \in 1..Len(MetricOrder)}

(***************************************************************************)
(* Fact scan                                                               *)
(***************************************************************************)
\* lines 50-52: float(node.text) if node.text else None, a ValueError giving None
ValueOf(text) == IF text # <<>> THEN ParseFloat(text) ELSE None

\* PointsOfNode skipping an element whose unit does not resolve
PointsOfNode_SkipNoUnit(node, ctxs, unts) ==
    LET context == Get(ctxs, OrEmpty(node.contextRef))
    IN  IF context = None \/ Get(unts, OrEmpty(node.unitRef)) = None THEN <<>>
        ELSE << [year        |-> context[1].year,
                 value       |-> ValueOf(node.text),
                 unit        |-> Get(unts, OrEmpty(node.unitRef)),
                 period_type |-> context[1].period_type] >>

\* lines 44-62 for one matching element: the list of points it appends (none or one)
PointsOfNode(node, ctxs, unts) ==
    LET context == Get(ctxs, OrEmpty(node.contextRef))
    IN  IF context = None THEN <<>>
        ELSE << [year        |-> context[1].year,
                 value       |-> ValueOf(node.text),
                 unit        |-> Get(unts, OrEmpty(node.unitRef)),
                 period_type |-> context[1].period_type] >>

RECURSIVE PointsOfNodes(_, _, _)
PointsOfNodes(nodes, ctxs, unts) ==
    IF nodes = <<>> THEN <<>>
    ELSE PointsOfNode(Head(nodes), ctxs, unts) \o PointsOfNodes(Tail(nodes), ctxs, unts)

\* root.findall(".//{namespace}local"): the matching elements in document order
FindConcept(elems, namespace, local) ==
    SelectSeq(elems, LAMBDA el : el.ns = namespace /\ el.local = local)

\* lines 38-62 for one concept
PointsOfConcept(concept, ns, elems, ctxs, unts) ==
    LET prefix    == concept[1]
        local     == concept[2]
        namespace == Get(ns, prefix)
    IN  IF namespace = None THEN <<>>
        ELSE PointsOfNodes(FindConcept(elems, namespace[1], local), ctxs, unts)

\* PointsOfConcepts giving up at the first concept whose prefix is undeclared
RECURSIVE PointsOfConcepts_StopAtUndeclared(_, _, _, _, _)
PointsOfConcepts_StopAtUndeclared(concepts, ns, elems, ctxs, unts) ==
    IF concepts = <<>> \/ Get(ns, Head(concepts)[1]) = None THEN <<>>
    ELSE PointsOfConcept(Head(concepts), ns, elems, ctxs, unts)
         \o PointsOfConcepts_StopAtUndeclared(Tail(concepts), ns, elems, ctxs, unts)

\* PointsOfConcepts stopping at the first concept that gives a point
RECURSIVE PointsOfConcepts_FirstMatch(_, _, _, _, _)
PointsOfConcepts_FirstMatch(concepts, ns, elems, ctxs, unts) ==
    IF concepts = <<>> THEN <<>>
    ELSE LET pts == PointsOfConcept(Head(concepts), ns, elems, ctxs, unts)
         IN  IF pts # <<>> THEN pts
             ELSE PointsOfConcepts_FirstMatch(Tail(concepts), ns, elems, ctxs, unts)

\* the loop of lines 37-62 over the concepts of one metric
RECURSIVE PointsOfConcepts(_, _, _, _, _)
PointsOfConcepts(concepts, ns, elems, ctxs, unts) ==
    IF concepts = <<>> THEN <<>>
    ELSE PointsOfConcept(Head(concepts), ns, elems, ctxs, unts)
         \o PointsOfConcepts(Tail(concepts), ns, elems, ctxs, unts)

(***************************************************************************)
(* Merge                                                                   *)
(***************************************************************************)
\* Filtered giving up the whole list when one of its points lacks year or value
Filtered_AllOrNothing(pts) ==
    IF \E i \in 1..Len(pts) : pts[i].year = None \/ pts[i].value = None THEN <<>> ELSE pts

\* Filtered keeping the points without a value
Filtered_YearOnly(pts) == SelectSeq(pts, LAMBDA p : p.year # None)

\* line 112
Filtered(pts) == SelectSeq(pts, LAMBDA p : p.year # None /\ p.value # None)

\* InsertByYear without the ordering: the points stay in scan order
InsertByYear_Unsorted(sorted, p) == Append(sorted, p)

\* one step of a stable sort: p goes behind every point whose year is not larger
InsertByYear(sorted, p) ==
    LET k == Cardinality({i \in 1..Len(sorted) : sorted[i].year[1] <= p.year[1]})
    IN  SubSeq(sorted, 1, k) \o <<p>> \o SubSeq(sorted, k + 1, Len(sorted))

\* line 113: list.sort(key=year), which is stable
RECURSIVE SortByYear(_, _)
SortByYear(pts, sorted) ==
    IF pts = <<>> THEN sorted ELSE SortByYear(Tail(pts), InsertByYear(sorted, Head(pts)))

\* MergePoint with the last point of a year winning instead of the first
MergePoint_LastWins(merged, point) ==
    LET at == {i \in 1..Len(merged) : merged[i].year = point.year}
    IN  IF at = {} THEN Append(merged, point)
        ELSE [merged EXCEPT ![CHOOSE j \in at : TRUE] = point]

\* lines 115-122 for one point; `merged` is the dictionary as the list of its
\* values in insertion order, which list(merged.values()) returns
MergePoint(merged, point) ==
    LET at == {i \in 1..Len(merged) : merged[i].year = point.year}
    IN  IF at = {} THEN Append(merged, point)
        ELSE LET i == CHOOSE j \in at : TRUE
             IN  IF merged[i].value = None THEN [merged EXCEPT ![i] = point] ELSE merged

RECURSIVE MergeAll(_, _)
MergeAll(pts, merged) ==
    IF pts = <<>> THEN merged ELSE MergeAll(Tail(pts), MergePoint(merged, Head(pts)))

_merge_series(pts) == MergeAll(SortByYear(Filtered(pts), <<>>), <<>>)

(***************************************************************************)
(* parse_file, step by step                                                *)
(***************************************************************************)
\* line 31
BuildContextMap ==
    /\ pc = "contexts"
    /\ contexts' = _build_context_map(ctxDecls, nsmap)
    /\ pc' = "units"
    /\ UNCHANGED <<nsmap, ctxDecls, unitDecls, facts, units, todo, points, metrics, weekDates>>
    /\ UNCHANGED notDoc

\* line 32
BuildUnitMap ==
    /\ pc = "units"
    /\ units' = _build_unit_map(unitDecls, nsmap)
    /\ pc' = "scan"
    /\ UNCHANGED <<nsmap, ctxDecls, unitDecls, facts, contexts, todo, points, metrics,
                   weekDates>>
    /\ UNCHANGED notDoc

\* SetMetric leaving a metric without points out of the mapping
SetMetric_SkipEmpty(ms, metric, series) ==
    IF series = <<>> THEN ms ELSE (metric :> series) @@ ms

\* line 63: metrics[metric] = series
SetMetric(ms, metric, series) == (metric :> series) @@ ms

\* one pass of the loop of lines 35-63, and the return of line 65 after the last
ScanMetric ==
    /\ pc = "scan"
    /\ LET metric == Head(todo)
           pts == PointsOfConcepts(METRIC_CONCEPTS_JP[metric], nsmap, facts, contexts, units)
       IN  /\ points' = (metric :> pts) @@ points
           /\ metrics' = SetMetric(metrics, metric, _merge_series(pts))
    /\ todo' = Tail(todo)
    /\ pc' = IF Tail(todo) = <<>> THEN "done" ELSE "scan"
    /\ UNCHANGED <<nsmap, ctxDecls, unitDecls, facts, contexts, units, weekDates>>
    /\ UNCHANGED notDoc

Next == BuildContextMap \/ BuildUnitMap \/ ScanMetric

(***************************************************************************)
(* DataCache (app/cache.py)                                                *)
(***************************************************************************)
SecondsPerHour == 3600

\* the clock reading at the start, and the step by which the clock is seen to
\* advance: half an hour, so that an expiry is met before, at and after its time
StartTime == 3600
TickSeconds == 1800

MaxTicks == 4

Max(a, b) == IF a >= b THEN a ELSE b

\* _path_for_key: the file of a key, named by the key's SHA-256 digest (distinct
\* keys have distinct digests)
_path_for_key(key) == <<"sha256", key>>

\* json.loads(json.dumps(value)) of a value made of JSON's own types
JsonDumps(value) == [json |-> value]
JsonLoads(text) == text.json

\* DataCache.get (lines 27-46): an expired payload is removed and None returned
Expired(payload, time) == payload.expires_at # 0 /\ payload.expires_at < time

GetReturn(fs, key, time) ==
    LET path == _path_for_key(key)
    IN  IF path \notin DOMAIN fs THEN None
        ELSE IF Expired(JsonLoads(fs[path]), time) THEN None
             ELSE Some(JsonLoads(fs[path]).value)

GetFiles(fs, key, time) ==
    LET path == _path_for_key(key)
    IN  IF path \in DOMAIN fs /\ Expired(JsonLoads(fs[path]), time)
        THEN [q \in DOMAIN fs \ {path} |-> fs[q]]
        ELSE fs

\* ExpiresAt taking a negative ttl as it is
ExpiresAt_Unclamped(time, ttl_hours) == time + ttl_hours * SecondsPerHour

\* line 51
ExpiresAt(time, ttl_hours) == time + Max(ttl_hours, 0) * SecondsPerHour

\* DataCache.set (lines 48-57): the payload replaces the key's file
SetFiles(fs, key, value, ttl_hours, time) ==
    (_path_for_key(key) :>
        JsonDumps([expires_at |-> ExpiresAt(time, ttl_hours), value |-> value])) @@ fs

CacheKeys == {"k1", "k2"}
CacheValues == {"v1", "v2"}
TtlHours == {-1, 0, 1}

CacheGet ==
    /\ \E key \in CacheKeys :
          /\ cacheCall' = [op |-> "get", key |-> key, at |-> now,
                           ret |-> GetReturn(files, key, now)]
          /\ files' = GetFiles(files, key, now)
    /\ UNCHANGED <<now, lastSet, docVars, priceVars, secVars, fetchVars, laterVars>>

CacheSet ==
    /\ \E key \in CacheKeys, value \in CacheValues, ttl_hours \in TtlHours :
          /\ files' = SetFiles(files, key, value, ttl_hours, now)
          /\ lastSet' = (key :> [at |-> now, ttl_hours |-> ttl_hours, value |-> value])
                            @@ lastSet
          /\ cacheCall' = [op |-> "set", key |-> key, at |-> now, ret |-> None]
    /\ UNCHANGED <<now, docVars, priceVars, secVars, fetchVars, laterVars>>

\* time passes
Tick ==
    /\ now < StartTime + MaxTicks * TickSeconds
    /\ now' = now + TickSeconds
    /\ UNCHANGED <<files, cacheCall, lastSet, docVars, priceVars, secVars, fetchVars, laterVars>>

NextCache == CacheGet \/ CacheSet \/ Tick

\* a cache directory without files, and no call made
IdleCache ==
    /\ files = <<>>
    /\ now = StartTime
    /\ cacheCall = <<>>
    /\ lastSet = <<>>

\* no document is being parsed
IdleDoc ==
    /\ nsmap = <<>>
    /\ ctxDecls = <<>>
    /\ unitDecls = <<>>
    /\ facts = <<>>
    /\ pc = "idle"
    /\ contexts = <<>>
    /\ units = <<>>
    /\ todo = <<>>
    /\ points = <<>>
    /\ metrics = <<>>
    /\ weekDates = TRUE

\* no symbol is asked for
IdlePrice ==
    /\ priceCode = <<>>
    /\ pricePc = "idle"
    /\ symbol = <<>>
    /\ symbolAgain = <<>>

\* no SEC filings are asked for
IdleSec ==
    /\ recent = <<>>
    /\ secYears = 0
    /\ secPc = "idle"
    /\ secResult = <<>>
    /\ downloadLimit = <<>>

\* no EDINET filings are asked for
IdleFetch ==
    /\ mapping = <<>>
    /\ hasCache = FALSE
    /\ jpCode = <<>>
    /\ jpYears = 0
    /\ lastCall = <<>>
    /\ listing = <<>>
    /\ rowIdx = 1
    /\ fetched = <<>>
    /\ fetchPc = "idle"
    /\ fetchResult = <<>>
    /\ prevFetch = <<>>

IdleYoy ==
    /\ yoyInput = <<>>
    /\ yoyPc = "idle"
    /\ yoyResult = <<>>

IdleRace ==
    /\ raceDir = <<>>
    /\ raceInodes = <<>>
    /\ raceNow = StartTime
    /\ raceProcs = <<>>

IdleAlert ==
    /\ alertsFile = [state |-> "absent", alerts |-> <<>>]
    /\ alertSeq = 0
    /\ alertCall = <<>>
    /\ alertProcs = <<>>

IdlePortfolio ==
    /\ portfolioFile = [state |-> "absent", holdings |-> <<>>]
    /\ portfolioSeq = 0
    /\ portfolioCall = <<>>

IdleEdinet ==
    /\ edDays = <<>>
    /\ edArgs = <<>>
    /\ edPc = "idle"
    /\ edResults = <<>>
    /\ edSeen = {}
    /\ edOffset = 0
    /\ edMaxDays = 0
    /\ edFetched = 0
    /\ edReturn = <<>>

IdleSched ==
    /\ schedPieces = <<>>
    /\ schedTimes = <<>>
    /\ schedNow = <<>>
    /\ schedPc = "idle"
    /\ schedCandidates = <<>>
    /\ schedRunAt = <<>>
    /\ schedRuns = 0

IdleRsi ==
    /\ rsiTickers = <<>>
    /\ rsiConfig = <<>>
    /\ rsiMarket = <<>>
    /\ rsiPc = "idle"
    /\ rsiAlertMap = <<>>
    /\ rsiList = <<>>
    /\ rsiMatches = <<>>
    /\ rsiChecked = <<>>
    /\ rsiSent = <<>>

IdleEarlier == IdleDoc /\ IdleCache /\ IdlePrice /\ IdleSec /\ IdleFetch

IdleLater ==
    /\ IdleYoy
    /\ IdleRace
    /\ IdleAlert
    /\ IdlePortfolio
    /\ IdleEdinet
    /\ IdleSched
    /\ IdleRsi

\* every operation but one has not been called
IdleButYoy ==
    /\ IdleEarlier
    /\ IdleRace
    /\ IdleAlert
    /\ IdlePortfolio
    /\ IdleEdinet
    /\ IdleSched
    /\ IdleRsi
IdleButRace ==
    /\ IdleEarlier
    /\ IdleYoy
    /\ IdleAlert
    /\ IdlePortfolio
    /\ IdleEdinet
    /\ IdleSched
    /\ IdleRsi
IdleButAlert ==
    /\ IdleEarlier
    /\ IdleYoy
    /\ IdleRace
    /\ IdlePortfolio
    /\ IdleEdinet
    /\ IdleSched
    /\ IdleRsi
IdleButPortfolio ==
    /\ IdleEarlier
    /\ IdleYoy
    /\ IdleRace
    /\ IdleAlert
    /\ IdleEdinet
    /\ IdleSched
    /\ IdleRsi
IdleButEdinet ==
    /\ IdleEarlier
    /\ IdleYoy
    /\ IdleRace
    /\ IdleAlert
    /\ IdlePortfolio
    /\ IdleSched
    /\ IdleRsi
IdleButSched ==
    /\ IdleEarlier
    /\ IdleYoy
    /\ IdleRace
    /\ IdleAlert
    /\ IdlePortfolio
    /\ IdleEdinet
    /\ IdleRsi
IdleButRsi ==
    /\ IdleEarlier
    /\ IdleYoy
    /\ IdleRace
    /\ IdleAlert
    /\ IdlePortfolio
    /\ IdleEdinet
    /\ IdleSched

InitCache == IdleCache /\ IdleDoc /\ IdlePrice /\ IdleSec /\ IdleFetch /\ IdleLater

SpecCache == InitCache /\ [][NextCache]_vars

(***************************************************************************)
(* PriceService._to_yfinance_symbol (app/clients/price_service.py)         *)
(***************************************************************************)
MaxCodeLen == 3

\* Python's text.endswith(suffix)
EndsWith(text, suffix) ==
    /\ Len(text) >= Len(suffix)
    /\ SubSeq(text, Len(text) - Len(suffix) + 1, Len(text)) = suffix

DotT == <<".", "T">>

\* a returned text, and the ValueError of line 43
Returned(text) == [error |-> "", value |-> text]
ValueError == [error |-> "ValueError", value |-> <<>>]

\* _to_yfinance_symbol appending the suffix whatever the code ends in
_to_yfinance_symbol_AlwaysAppend(code) ==
    IF Strip(code) = <<>> THEN ValueError ELSE Returned(Strip(code) \o DotT)

\* lines 39-47
_to_yfinance_symbol(code) ==
    LET stripped == Strip(code)
    IN  IF stripped = <<>> THEN ValueError
        ELSE IF EndsWith(stripped, DotT) THEN Returned(stripped)
             ELSE Returned(stripped \o DotT)

ToSymbol ==
    /\ pricePc = "call"
    /\ symbol' = _to_yfinance_symbol(priceCode)
    /\ pricePc' = IF symbol'.error = "" THEN "returned" ELSE "raised"
    /\ UNCHANGED <<priceCode, symbolAgain, docVars, cacheVars, secVars, fetchVars, laterVars>>

\* the returned symbol is handed to _to_yfinance_symbol again
ToSymbolAgain ==
    /\ pricePc = "returned"
    /\ symbolAgain' = _to_yfinance_symbol(symbol.value)
    /\ pricePc' = "again"
    /\ UNCHANGED <<priceCode, symbol, docVars, cacheVars, secVars, fetchVars, laterVars>>

NextPrice == ToSymbol \/ ToSymbolAgain

CodeChars == {"7", ".", "T", "t", " "}

InitPrice ==
    /\ priceCode \in SeqsUpTo(CodeChars, MaxCodeLen)
    /\ pricePc = "call"
    /\ symbol = <<>>
    /\ symbolAgain = <<>>
    /\ IdleDoc
    /\ IdleCache
    /\ IdleSec
    /\ IdleFetch
    /\ IdleLater

SpecPrice == InitPrice /\ [][NextPrice]_vars

(***************************************************************************)
(* FilingsFetcher.fetch_recent_filings (app/filings_fetcher.py)            *)
(***************************************************************************)
MaxFilings == 3

\* the code point of a character of a date text
CharCode(c) == IF c = "-" THEN 45 ELSE 48 + DigitVal(c)

\* Python's a < b on texts: the first differing character decides, a proper
\* prefix is smaller
RECURSIVE TextLess(_, _)
TextLess(a, b) ==
    IF b = <<>> THEN FALSE
    ELSE IF a = <<>> THEN TRUE
    ELSE IF a[1] = b[1] THEN TextLess(Tail(a), Tail(b))
    ELSE CharCode(a[1]) < CharCode(b[1])

\* lines 116-122, for a list of integers and nulls; index counts from 1
_safe_int_from_list(values, index) ==
    IF values = <<>> \/ index > Len(values) THEN None ELSE values[index]

\* lines 125-137: the year of the report date, else of the filing date; the
\* dates here have at most 10 characters
RECURSIVE DeriveYear(_)
DeriveYear(raws) ==
    IF raws = <<>> THEN None
    ELSE LET raw == Head(raws)
         IN  IF raw = None \/ raw[1] = <<>> THEN DeriveYear(Tail(raws))
             ELSE IF FromIsoFormatYear(raw[1]) # None THEN FromIsoFormatYear(raw[1])
             ELSE IF ParseInt(Take(raw[1], 4)) # None THEN ParseInt(Take(raw[1], 4))
             ELSE DeriveYear(Tail(raws))

_derive_year_from_dates(record) == DeriveYear(<<record.report_date, record.filed>>)

\* Python's list[idx] if idx < len(list) else None
ItemOrNone(list, idx) == IF idx <= Len(list) THEN list[idx] ELSE None

\* lines 93-109: the record of index idx
RecordOf(filings, idx) ==
    LET fiscal_year == _safe_int_from_list(filings.fy, idx)
        record == [form |-> ItemOrNone(filings.form, idx),
                   filed |-> ItemOrNone(filings.filed, idx),
                   report_date |-> ItemOrNone(filings.reportDate, idx),
                   accession_number |-> ItemOrNone(filings.accessionNumber, idx)]
    IN  [form |-> record.form,
         filed |-> record.filed,
         report_date |-> record.report_date,
         accession_number |-> record.accession_number,
         fiscal_year |-> IF fiscal_year # None THEN fiscal_year
                         ELSE _derive_year_from_dates(record)]

\* item.get("filed") or ""
FiledKey(record) == IF record.filed = None THEN <<>> ELSE record.filed[1]

\* InsertByFiled ordering the records from the oldest filing to the newest
RECURSIVE InsertByFiled_Ascending(_, _)
InsertByFiled_Ascending(sorted, r) ==
    IF sorted = <<>> THEN <<r>>
    ELSE IF TextLess(FiledKey(r), FiledKey(Head(sorted))) THEN <<r>> \o sorted
    ELSE <<Head(sorted)>> \o InsertByFiled_Ascending(Tail(sorted), r)

\* line 112, one record at a time: records.sort(key=filed, reverse=True) is
\* stable, a record goes behind the records filed later or on the same date
RECURSIVE InsertByFiled(_, _)
InsertByFiled(sorted, r) ==
    IF sorted = <<>> THEN <<r>>
    ELSE IF TextLess(FiledKey(Head(sorted)), FiledKey(r)) THEN <<r>> \o sorted
    ELSE <<Head(sorted)>> \o InsertByFiled(Tail(sorted), r)

RECURSIVE SortByFiled(_, _)
SortByFiled(records, sorted) ==
    IF records = <<>> THEN sorted
    ELSE SortByFiled(Tail(records), InsertByFiled(sorted, Head(records)))

\* lines 84-113
_normalize_recent_filings(filings) ==
    SortByFiled([idx \in 1..Len(filings.form) |-> RecordOf(filings, idx)], <<>>)

\* lines 44-55: the first record of each fiscal year, until there are `years`
RECURSIVE UniqueYears(_, _, _)
UniqueYears(records, unique_years, years) ==
    IF records = <<>> \/ Len(unique_years) >= years THEN unique_years
    ELSE LET record == Head(records)
         IN  IF record.fiscal_year = None
                \/ \E i \in 1..Len(unique_years) :
                      unique_years[i].fiscal_year = record.fiscal_year
             THEN UniqueYears(Tail(records), unique_years, years)
             ELSE UniqueYears(Tail(records), Append(unique_years, record), years)

\* line 58: unique_years.sort(key=fiscal_year), the years being distinct
RECURSIVE InsertByFiscalYear(_, _)
InsertByFiscalYear(sorted, r) ==
    IF sorted = <<>> THEN <<r>>
    ELSE IF r.fiscal_year[1] < Head(sorted).fiscal_year[1] THEN <<r>> \o sorted
    ELSE <<Head(sorted)>> \o InsertByFiscalYear(Tail(sorted), r)

RECURSIVE SortByFiscalYear(_, _)
SortByFiscalYear(records, sorted) ==
    IF records = <<>> THEN sorted
    ELSE SortByFiscalYear(Tail(records), InsertByFiscalYear(sorted, Head(records)))

\* fetch_recent_filings (lines 26-70) of a fetcher without cache, the client
\* returning `recent` as the recent filings and "facts" as the company facts
FetchSec ==
    /\ secPc = "call"
    /\ LET unique_years ==
               IF secYears <= 0 \/ Len(recent.form) = 0 THEN <<>>
               ELSE SortByFiscalYear(
                        UniqueYears(_normalize_recent_filings(recent), <<>>, secYears),
                        <<>>)
       IN  /\ secResult' = [i \in 1..Len(unique_years) |->
                               [meta |-> unique_years[i], facts |-> "facts"]]
           /\ downloadLimit' = IF unique_years # <<>> THEN Some(Len(unique_years))
                               ELSE None
    /\ secPc' = "returned"
    /\ UNCHANGED <<recent, secYears, docVars, cacheVars, priceVars, fetchVars, laterVars>>

NextSec == FetchSec

\* filing dates and report dates of the recent filings
F2021 == <<"2", "0", "2", "1", "-", "0", "6", "-", "3", "0">>
F2022 == <<"2", "0", "2", "2", "-", "0", "6", "-", "3", "0">>
F2023 == <<"2", "0", "2", "3", "-", "0", "6", "-", "3", "0">>
R2023 == <<"2", "0", "2", "3", "-", "0", "3", "-", "3", "1">>

\* one filing of the lists: its filing date, and its fiscal year stated, or to
\* be derived from its report date or from its filing date
FilingRows ==
    {[filed |-> f, reportDate |-> y[1], fy |-> y[2]] :
        f \in {None, Some(F2021), Some(F2022), Some(F2023)},
        y \in {<<Some(R2023), Some(2022)>>, <<None, None>>}}
    \cup {[filed |-> Some(F2021), reportDate |-> Some(R2023), fy |-> None]}

\* the numbers of years asked for
YearsAsked == 0..3

\* the dict of lists of a list of filings
RecentOf(rows) ==
    [form |-> [i \in 1..Len(rows) |-> Some("10-K")],
     filed |-> [i \in 1..Len(rows) |-> rows[i].filed],
     reportDate |-> [i \in 1..Len(rows) |-> rows[i].reportDate],
     accessionNumber |-> [i \in 1..Len(rows) |-> Some(i)],
     fy |-> [i \in 1..Len(rows) |-> rows[i].fy]]

InitSec ==
    /\ recent \in {RecentOf(rows) : rows \in SeqsUpTo(FilingRows, MaxFilings)}
    /\ secYears \in YearsAsked
    /\ secPc = "call"
    /\ secResult = <<>>
    /\ downloadLimit = <<>>
    /\ IdleDoc
    /\ IdleCache
    /\ IdlePrice
    /\ IdleFetch
    /\ IdleLater

SpecSec == InitSec /\ [][NextSec]_vars

(***************************************************************************)
(* Documents                                                               *)
(***************************************************************************)
MaxContexts == 2
MaxUnits == 1
MaxFacts == 2
MaxUnitDecls == 2

XbrliNs == "http://www.xbrl.org/2003/instance"
JpcrpNs == "http://disclosure.edinet-fsa.go.jp/taxonomy/jpcrp/2022-11-01/jpcrp_cor"
IfrsNs == "http://xbrl.ifrs.org/taxonomy/2022-03-24/ifrs-full"

Prefixes == {"xbrli", "jpcrp030000-asr", "ifrs-full"}

UriOf(prefix) ==
    CASE prefix = "xbrli" -> XbrliNs
      [] prefix = "jpcrp030000-asr" -> JpcrpNs
      [] prefix = "ifrs-full" -> IfrsNs

\* the namespace mapping of a root element that declares the prefixes of S
NsMapOf(S) == [p \in S |-> UriOf(p)]

D2022 == <<"2", "0", "2", "2", "-", "0", "3", "-", "3", "1">>
D2023 == <<"2", "0", "2", "3", "-", "0", "3", "-", "3", "1">>
Y2021 == <<"2", "0", "2", "1">>
NotADate == <<"a", "b", "c", "d">>

T100 == <<"1", "0", "0">>
T200 == <<"2", "0", "0">>
NotANumber == <<"a", "b", "c">>
JPY == <<"i", "s", "o", ":", "J", "P", "Y">>
Shares == <<"s", "h", "a", "r", "e", "s">>
TwoColons == <<"a", ":", "b", ":", "c">>
TrailingColon == <<"x", ":">>

Period(end, instant) == Some([endDate |-> end, instant |-> instant])

ContextElem(id, period) == [ns |-> XbrliNs, id |-> id, period |-> period]

ContextElems(ids, periods) == {ContextElem(i, p) : i \in ids, p \in periods}

UnitElems(ids, measures) ==
    {[ns |-> XbrliNs, id |-> i, measure |-> m] : i \in ids, m \in measures}

FactElems(concepts, contextRefs, unitRefs, texts) ==
    {[ns |-> UriOf(c[1]), local |-> c[2], contextRef |-> cr, unitRef |-> ur, text |-> t] :
        c \in concepts, cr \in contextRefs, ur \in unitRefs, t \in texts}

NetSales == <<"jpcrp030000-asr", "NetSales">>
Revenue == <<"ifrs-full", "Revenue">>
OperatingIncome == <<"jpcrp030000-asr", "OperatingIncome">>

InitDoc(nsmaps, ctxSeqs, unitSeqs, factSeqs, interpreters) ==
    /\ nsmap \in nsmaps
    /\ ctxDecls \in ctxSeqs
    /\ unitDecls \in unitSeqs
    /\ facts \in factSeqs
    /\ pc = "contexts"
    /\ contexts = <<>>
    /\ units = <<>>
    /\ todo = MetricOrder
    /\ points = <<>>
    /\ metrics = <<>>
    /\ weekDates \in interpreters
    /\ IdleCache
    /\ IdlePrice
    /\ IdleSec
    /\ IdleFetch
    /\ IdleLater

\* Documents whose dates hold no week notation and no sign, for which every
\* interpreter derives the same years
InitWith(nsmaps, ctxSeqs, unitSeqs, factSeqs) ==
    InitDoc(nsmaps, ctxSeqs, unitSeqs, factSeqs, {TRUE})

\* Documents with both taxonomies declared, contexts c1 (2022 or 2023) and c2
\* (2023), and facts of the two revenue concepts with numeric text, or of the
\* first concept with non-numeric text.
Init ==
    InitWith({NsMapOf(Prefixes)},
             SeqsUpTo({ContextElem(Some("c1"), Period(Some(D2022), None)),
                       ContextElem(Some("c1"), Period(Some(D2023), None)),
                       ContextElem(Some("c2"), Period(Some(D2023), None))},
                      MaxContexts),
             {<<>>},
             SeqsUpTo(FactElems({NetSales, Revenue}, {Some("c1"), Some("c2")}, {None},
                                {T100, T200})
                      \cup FactElems({NetSales}, {Some("c1")}, {None}, {NotANumber}),
                      MaxFacts))

Spec == Init /\ [][Next]_vars

\* Documents whose facts may have empty or non-numeric text and whose context c2
\* may have an unparseable date or no period at all.
InitText ==
    InitWith({NsMapOf(Prefixes)},
             SeqsUpTo({ContextElem(Some("c1"), Period(Some(D2023), None)),
                       ContextElem(Some("c2"), Period(Some(D2022), None)),
                       ContextElem(Some("c2"), Period(Some(NotADate), None)),
                       ContextElem(Some("c2"), None)},
                      MaxContexts),
             {<<>>},
             SeqsUpTo(FactElems({NetSales}, {Some("c1"), Some("c2")}, {None},
                                {T100, NotANumber, <<>>}),
                      MaxFacts))

SpecText == InitText /\ [][Next]_vars

\* Documents whose root declares any subset of the three prefixes, while their
\* elements are in the three namespaces all the same (bound to other prefixes or
\* to the default namespace).
InitNs ==
    InitWith({NsMapOf(S) : S \in SUBSET Prefixes},
             SeqsUpTo({ContextElem(Some("c1"), Period(Some(D2022), None)),
                       ContextElem(Some("c1"), Period(Some(D2023), None))},
                      MaxContexts),
             SeqsUpTo(UnitElems({Some("u1")}, {Some(JPY)}), MaxUnits),
             SeqsUpTo(FactElems({NetSales, Revenue, OperatingIncome}, {Some("c1")},
                                {Some("u1")}, {T100}),
                      MaxFacts))

SpecNs == InitNs /\ [][Next]_vars

\* Documents whose facts may lack a context or unit reference or refer to an
\* undeclared id, with a context element that may lack its id and a unit element
\* that may lack its measure.
InitRef ==
    InitWith({NsMapOf(Prefixes)},
             SeqsUpTo({ContextElem(None, Period(Some(D2022), None)),
                       ContextElem(Some("c1"), Period(Some(D2023), None))},
                      MaxContexts),
             SeqsUpTo(UnitElems({Some("u1")}, {Some(JPY), None}), MaxUnits),
             SeqsUpTo(FactElems({NetSales}, {None, Some("c1"), Some("c2")},
                                {None, Some("u1")}, {T100}),
                      MaxFacts))

SpecRef == InitRef /\ [][Next]_vars

\* Documents without facts whose context elements have no period, or a period
\* whose endDate is missing, empty, a date, a bare year or no date, and whose
\* instant is missing, a date or no date.
InitCtx ==
    InitWith({NsMapOf(Prefixes)},
             SeqsUpTo(ContextElems({Some("c1"), Some("c2")},
                                   {None} \cup
                                   {Period(end, instant) :
                                       end \in {None, Some(<<>>), Some(D2022), Some(Y2021),
                                                Some(NotADate)},
                                       instant \in {None, Some(D2023), Some(NotADate)}}),
                      MaxContexts),
             {<<>>},
             {<<>>})

SpecCtx == InitCtx /\ [][Next]_vars

\* Documents without contexts and facts whose unit elements may lack their id and
\* whose measure is missing, empty, or a text with no, one or two colons or with
\* a colon at its end; the root may leave the xbrli prefix undeclared.
InitUnit ==
    InitWith({NsMapOf(Prefixes), NsMapOf(Prefixes \ {"xbrli"})},
             {<<>>},
             SeqsUpTo(UnitElems({None, Some("u1"), Some("u2")},
                                {None, Some(<<>>), Some(JPY), Some(Shares),
                                 Some(TwoColons), Some(TrailingColon)}),
                      MaxUnitDecls),
             {<<>>})

SpecUnit == InitUnit /\ [][Next]_vars

\* the first four characters of a date text, and what follows them
YearHeads ==
    {<<"2", "0", "2", "0">>, <<"2", "0", "1", "5">>, <<"2", "0", "2", "3">>,
     <<"0", "0", "0", "0">>, <<"1", "_", "0", "0">>, <<"-", "1", "2", "3">>,
     <<" ", "1", "2", " ">>, <<"a", "b", "c", "d">>, <<"2", "0">>}

YearTails ==
    {<<>>,
     <<"-", "0", "3", "-", "3", "1">>,
     <<"-", "0", "2", "-", "3", "0">>,
     <<"-", "3", "-", "1">>,
     <<"0", "3", "3", "1">>,
     <<"-", "W", "0", "1", "-", "1">>,
     <<"-", "W", "5", "3", "-", "7">>,
     <<"-", "W", "5", "3">>,
     <<"W", "0", "1", "1">>,
     <<"W", "0", "1">>,
     <<"W", "0", "1", "T", "1", "2">>,
     <<"-", "0", "3", "-", "3", "1", "T", "0", "0", ":", "0", "0">>}

YearTexts == {h \o t : h \in YearHeads, t \in YearTails}

\* Documents of one context c1 whose end date is any of the date texts, read by
\* either interpreter.
InitYear ==
    InitDoc({NsMapOf(Prefixes)},
            {<<ContextElem(Some("c1"), Period(Some(text), None))>> : text \in YearTexts},
            {<<>>},
            {<<>>},
            BOOLEAN)

SpecYear == InitYear /\ [][Next]_vars

\* Documents that combine the failures: the root may leave the ifrs-full prefix
\* undeclared, context c2 may have an unparseable date, and the facts of the two
\* revenue concepts may refer to the undeclared context c3 or the undeclared
\* unit u2 or have non-numeric text.
InitMix ==
    InitWith({NsMapOf(Prefixes), NsMapOf(Prefixes \ {"ifrs-full"})},
             {<<ContextElem(Some("c1"), Period(Some(D2023), None)),
                ContextElem(Some("c2"), Period(Some(cd), None))>> : cd \in {D2022, NotADate}},
             {<<[ns |-> XbrliNs, id |-> Some("u1"), measure |-> Some(JPY)]>>},
             SeqsUpTo(FactElems({NetSales, Revenue}, {Some("c1"), Some("c2"), Some("c3")},
                                {Some("u1")}, {T100, NotANumber})
                      \cup FactElems({NetSales, Revenue},
                                     {Some("c1"), Some("c2"), Some("c3")},
                                     {Some("u2")}, {T200}),
                      MaxFacts))

SpecMix == InitMix /\ [][Next]_vars

(***************************************************************************)
(* FilingsFetcherJP.fetch_recent_filings (app/services/filings_fetcher_jp.py) *)
(***************************************************************************)
MaxRows == 2
MaxCachedFiles == 1

CacheTtlHours == 12

\* parse_file of a well-formed document, start to return (lines 30-65)
ParseFile(doc) ==
    LET ctxs == _build_context_map(doc.ctxDecls, doc.nsmap)
        unts == _build_unit_map(doc.unitDecls, doc.nsmap)
    IN  [metric \in MetricNames |->
            _merge_series(PointsOfConcepts(METRIC_CONCEPTS_JP[metric], doc.nsmap,
                                           doc.facts, ctxs, unts))]

\* PutAll keeping the item a year already has
RECURSIVE PutAll_KeepExisting(_, _)
PutAll_KeepExisting(combined, items) ==
    IF items = <<>> THEN combined
    ELSE IF Head(items).year = None THEN PutAll_KeepExisting(combined, Tail(items))
    ELSE PutAll_KeepExisting(combined @@ (Head(items).year[1] :> Head(items)), Tail(items))

\* lines 86-91: combined[year] = item for every item with a year, in order
RECURSIVE PutAll(_, _)
PutAll(combined, items) ==
    IF items = <<>> THEN combined
    ELSE IF Head(items).year = None THEN PutAll(combined, Tail(items))
    ELSE PutAll((Head(items).year[1] :> Head(items)) @@ combined, Tail(items))

\* line 92: sorted(combined.values(), key=year), the keys being the years
RECURSIVE SortedValues(_)
SortedValues(combined) ==
    IF DOMAIN combined = {} THEN <<>>
    ELSE LET first == CHOOSE y \in DOMAIN combined : \A z \in DOMAIN combined : y <= z
         IN  <<combined[first]>>
                 \o SortedValues([y \in DOMAIN combined \ {first} |-> combined[y]])

\* lines 80-93
_merge_metric_dict(base, new_metrics) ==
    [metric \in DOMAIN base \cup DOMAIN new_metrics |->
        IF metric \in DOMAIN new_metrics
        THEN LET existing == IF metric \in DOMAIN base THEN base[metric] ELSE <<>>
             IN  SortedValues(PutAll(PutAll(<<>>, existing), new_metrics[metric]))
        ELSE base[metric]]

\* Python's str.isdigit on a code: not empty, digits alone
IsDigit(code) == code # <<>> /\ AllDigits(code)

\* the entry has an edinet_code that is not empty
HasEdinetCode(entry) ==
    entry # None /\ entry[1].edinet_code # None /\ entry[1].edinet_code[1] # <<>>

\* LookupOf looking by security code whenever the code is numeric
LookupOf_NumericFirst(entry, code) ==
    IF IsDigit(code) THEN [code |-> code, use_security_code |-> TRUE]
    ELSE IF HasEdinetCode(entry)
         THEN [code |-> entry[1].edinet_code[1], use_security_code |-> FALSE]
         ELSE [code |-> code, use_security_code |-> FALSE]

\* lines 48-55: the code to look documents up by, and whether it is a security code
LookupOf(entry, code) ==
    IF HasEdinetCode(entry)
    THEN [code |-> entry[1].edinet_code[1], use_security_code |-> FALSE]
    ELSE [code |-> code, use_security_code |-> IsDigit(code)]

\* lines 40-42: f"edinet:{edinet_code}:{years}"
CacheKeyOf(entry, code, years) ==
    <<"edinet", IF entry # None THEN entry[1].edinet_code ELSE Some(code), years>>

\* a dict is truthy when it has a key
Truthy(cached) == cached # None /\ DOMAIN cached[1] # {}

\* the documents of the filings: revenue of 2022 and 2023, revenue of 2023 with
\* another value, operating income of 2022
DocOf(ctxs, fs) ==
    [nsmap |-> NsMapOf(Prefixes), ctxDecls |-> ctxs, unitDecls |-> <<>>, facts |-> fs]

DocA ==
    DocOf(<<ContextElem(Some("c1"), Period(Some(D2022), None)),
            ContextElem(Some("c2"), Period(Some(D2023), None))>>,
          <<[ns |-> JpcrpNs, local |-> "NetSales", contextRef |-> Some("c1"),
             unitRef |-> None, text |-> T100],
            [ns |-> JpcrpNs, local |-> "NetSales", contextRef |-> Some("c2"),
             unitRef |-> None, text |-> T200]>>)

DocB ==
    DocOf(<<ContextElem(Some("c1"), Period(Some(D2023), None))>>,
          <<[ns |-> JpcrpNs, local |-> "NetSales", contextRef |-> Some("c1"),
             unitRef |-> None, text |-> T100]>>)

DocC ==
    DocOf(<<ContextElem(Some("c1"), Period(Some(D2022), None))>>,
          <<[ns |-> JpcrpNs, local |-> "OperatingIncome", contextRef |-> Some("c1"),
             unitRef |-> None, text |-> T200]>>)

\* the rows list_documents may return: a filing with one of the documents, a
\* filing whose primary file is not well-formed, a filing whose archive holds no
\* XBRL file, a row without docID
ListedRows ==
    {[docID |-> Some("A"), xbrl |-> Some([wellFormed |-> TRUE, doc |-> DocA])],
     [docID |-> Some("B"), xbrl |-> Some([wellFormed |-> TRUE, doc |-> DocB])],
     [docID |-> Some("C"), xbrl |-> Some([wellFormed |-> TRUE, doc |-> DocC])],
     [docID |-> Some("X"), xbrl |-> Some([wellFormed |-> FALSE, doc |-> <<>>])],
     [docID |-> Some("Z"), xbrl |-> None],
     [docID |-> None, xbrl |-> None]}

\* lines 37-62: the call up to list_documents, or its return for years <= 0 or
\* from the cache
FetchStart ==
    /\ fetchPc = "call"
    /\ LET entry == Get(mapping, jpCode)
           cache_key == CacheKeyOf(entry, jpCode, jpYears)
           cached == IF hasCache THEN GetReturn(files, cache_key, now) ELSE None
           lookup == LookupOf(entry, jpCode)
       IN  IF jpYears <= 0
           THEN /\ fetchResult' = Some(<<>>)
                /\ fetchPc' = "returned"
                /\ UNCHANGED <<files, cacheCall, lastCall, listing>>
           ELSE /\ IF hasCache
                   THEN /\ files' = GetFiles(files, cache_key, now)
                        /\ cacheCall' = [op |-> "get", key |-> cache_key, at |-> now,
                                         ret |-> cached]
                   ELSE UNCHANGED <<files, cacheCall>>
                /\ IF Truthy(cached)
                   THEN /\ fetchResult' = cached
                        /\ fetchPc' = "returned"
                        /\ UNCHANGED <<lastCall, listing>>
                   ELSE /\ lastCall' = Some([code |-> lookup.code,
                                             use_security_code |-> lookup.use_security_code,
                                             limit |-> jpYears])
                        /\ listing' \in SeqsUpTo(ListedRows, Min(jpYears, MaxRows))
                        /\ fetchPc' = "rows"
                        /\ UNCHANGED fetchResult
    /\ rowIdx' = 1
    /\ fetched' = <<>>
    /\ UNCHANGED <<prevFetch, mapping, hasCache, jpCode, jpYears, now, lastSet>>
    /\ UNCHANGED <<docVars, priceVars, secVars, laterVars>>

\* one pass of the loop of lines 64-73; the error parse_file raises for a file
\* that is not well-formed (line 28) leaves fetch_recent_filings
FetchRow ==
    /\ fetchPc = "rows"
    /\ rowIdx <= Len(listing)
    /\ LET row == listing[rowIdx]
       IN  IF row.docID = None \/ row.xbrl = None
           THEN UNCHANGED <<fetched, fetchPc>>
           ELSE IF ~row.xbrl[1].wellFormed
                THEN fetchPc' = "raised" /\ UNCHANGED fetched
                ELSE /\ fetched' = _merge_metric_dict(fetched, ParseFile(row.xbrl[1].doc))
                     /\ UNCHANGED fetchPc
    /\ rowIdx' = rowIdx + 1
    /\ UNCHANGED <<prevFetch, mapping, hasCache, jpCode, jpYears, lastCall, listing, fetchResult>>
    /\ UNCHANGED <<docVars, cacheVars, priceVars, secVars, laterVars>>

\* lines 75-77
FetchReturn ==
    /\ fetchPc = "rows"
    /\ rowIdx > Len(listing)
    /\ LET cache_key == CacheKeyOf(Get(mapping, jpCode), jpCode, jpYears)
       IN  IF hasCache
           THEN /\ files' = SetFiles(files, cache_key, fetched, CacheTtlHours, now)
                /\ lastSet' = (cache_key :> [at |-> now, ttl_hours |-> CacheTtlHours,
                                             value |-> fetched]) @@ lastSet
                /\ cacheCall' = [op |-> "set", key |-> cache_key, at |-> now, ret |-> None]
           ELSE UNCHANGED <<files, lastSet, cacheCall>>
    /\ fetchResult' = Some(fetched)
    /\ fetchPc' = "returned"
    /\ UNCHANGED <<prevFetch, mapping, hasCache, jpCode, jpYears, lastCall, listing, rowIdx, fetched>>
    /\ UNCHANGED <<now, docVars, priceVars, secVars, laterVars>>

Code7203 == <<"7", "2", "0", "3">>
CodeE05653 == <<"E", "0", "5", "6", "5", "3">>

\* the codes and numbers of years fetch_recent_filings is called with
CodesAsked == {Code7203, CodeE05653}
JpYearsAsked == 0..2

\* the next call of a fetcher with a cache
NewCall ==
    /\ hasCache
    /\ fetchPc \in {"returned", "raised"}
    /\ Cardinality(DOMAIN files) <= MaxCachedFiles
    /\ jpCode' \in CodesAsked
    /\ jpYears' \in JpYearsAsked
    /\ fetchPc' = "call"
    /\ fetchResult' = <<>>
    /\ listing' = <<>>
    /\ rowIdx' = 1
    /\ fetched' = <<>>
    /\ prevFetch' = IF fetchPc = "returned" /\ jpCode' = jpCode /\ jpYears' = jpYears
                    THEN fetchResult
                    ELSE None
    /\ UNCHANGED <<mapping, hasCache, lastCall>>
    /\ UNCHANGED <<docVars, cacheVars, priceVars, secVars, laterVars>>

NextFetch == FetchStart \/ FetchRow \/ FetchReturn \/ NewCall

\* a fetcher with or without cache, over the cache directory without files,
\* whose mapping file is empty or has an entry of code 7203, with or without
\* edinet_code
InitFetch ==
    /\ mapping \in {<<>>,
                     (Code7203 :> [edinet_code |-> Some(CodeE05653)]),
                     (Code7203 :> [edinet_code |-> None])}
    /\ hasCache \in BOOLEAN
    /\ jpCode \in CodesAsked
    /\ jpYears \in JpYearsAsked
    /\ lastCall = <<>>
    /\ listing = <<>>
    /\ rowIdx = 1
    /\ fetched = <<>>
    /\ fetchPc = "call"
    /\ fetchResult = <<>>
    /\ prevFetch = <<>>
    /\ IdleDoc
    /\ IdleCache
    /\ IdlePrice
    /\ IdleSec
    /\ IdleLater

SpecFetch == InitFetch /\ [][NextFetch]_vars

(***************************************************************************)
(* compute_yoy (app/metrics.py)                                            *)
(***************************************************************************)
MaxPoints == 3

\* line 21: the sort key of a point, item.get("year") or 0
YearKey(point) == IF point.year = None THEN 0 ELSE point.year[1]

\* sorted() is stable: a point goes after the points whose key is not greater
InsertByYearKey(ordered, point) ==
    LET before == SelectSeq(ordered, LAMBDA q : YearKey(q) <= YearKey(point))
        after == SelectSeq(ordered, LAMBDA q : YearKey(q) > YearKey(point))
    IN  before \o <<point>> \o after

\* line 21
RECURSIVE SortByYearKey(_)
SortByYearKey(series) ==
    IF series = <<>> THEN <<>>
    ELSE InsertByYearKey(SortByYearKey(SubSeq(series, 1, Len(series) - 1)), series[Len(series)])

Abs(x) == IF x < 0 THEN -x ELSE x

\* line 28: (value - prev_value) / abs(prev_value), the quotient kept as the
\* pair of its numerator and its denominator
Ratio(value, prev_value) == [num |-> value - prev_value, den |-> Abs(prev_value)]

\* lines 26-28
Yoy(prev_value, point) ==
    IF prev_value \notin {None, Some(0)} /\ point.value # None
    THEN Some(Ratio(point.value[1], prev_value[1]))
    ELSE None

\* Enrich comparing with the value of the point before, present or not
RECURSIVE Enrich_PointBefore(_, _)
Enrich_PointBefore(ordered, prev_value) ==
    IF ordered = <<>> THEN <<>>
    ELSE LET point == Head(ordered)
         IN  <<[year |-> point.year, value |-> point.value, unit |-> point.unit,
                yoy |-> Yoy(prev_value, point)]>>
                 \o Enrich_PointBefore(Tail(ordered), point.value)

\* lines 22-32: the loop over the ordered points, prev_value carried along
RECURSIVE Enrich(_, _)
Enrich(ordered, prev_value) ==
    IF ordered = <<>> THEN <<>>
    ELSE LET point == Head(ordered)
         IN  <<[year |-> point.year, value |-> point.value, unit |-> point.unit,
                yoy |-> Yoy(prev_value, point)]>>
                 \o Enrich(Tail(ordered),
                           IF point.value # None THEN point.value ELSE prev_value)

\* lines 8-35
compute_yoy(input) ==
    [metric_name \in DOMAIN input |->
        IF input[metric_name] = <<>> THEN <<>>
        ELSE Enrich(SortByYearKey(input[metric_name]), None)]

\* the call of compute_yoy
ComputeYoy ==
    /\ yoyPc = "call"
    /\ yoyResult' = Some(compute_yoy(yoyInput))
    /\ yoyPc' = "returned"
    /\ UNCHANGED <<yoyInput, notYoy>>

NextYoy == ComputeYoy

\* the points of a series: with or without year, with or without value, the
\* value zero, positive or negative
YoyYears == {None, Some(2022), Some(2023)}
YoyValues == {None, Some(0), Some(2), Some(-4)}
YoyPoints == {[year |-> y, value |-> v, unit |-> Some("JPY")] : y \in YoyYears, v \in YoyValues}

\* the metrics handed over: no metric, revenue alone, or revenue and an
\* operating income of no point or one
InitYoy ==
    /\ yoyInput \in {<<>>}
           \cup {("revenue" :> series) : series \in SeqsUpTo(YoyPoints, MaxPoints)}
           \cup {("revenue" :> series) @@ ("operating_income" :> other) :
                     series \in SeqsUpTo(YoyPoints, 1),
                     other \in SeqsUpTo({p \in YoyPoints : p.year = Some(2022)}, 1)}
    /\ yoyPc = "call"
    /\ yoyResult = <<>>
    /\ IdleButYoy

SpecYoy == InitYoy /\ [][NextYoy]_vars

(***************************************************************************)
(* DataCache.get and DataCache.set of one key by concurrent processes      *)
(* (app/cache.py).  The directory maps a file name to an inode; a process  *)
(* that has opened a file writes to its inode wherever the name has gone.  *)
(***************************************************************************)
MaxRaceTicks == 1

RaceProcs == {"p1", "p2", "p3"}
RaceValues == {"v1", "v22"}
RaceTtls == {0, 1}

\* lines 49 and 55: the key's file and path.with_suffix(".tmp"), the same two
\* names in every process
KeyPath == "digest.json"
TmpPath == "digest.tmp"

\* json.dumps(payload) as characters, each known by the payload and its place;
\* the text of the longer value is the longer
DumpsLen(payload) == IF payload.value = "v1" THEN 2 ELSE 3
DumpsText(payload) == [i \in 1..DumpsLen(payload) |-> [of |-> payload, at |-> i]]

\* json.loads succeeds on the complete text of a payload and on nothing else
Loadable(text) == text # <<>> /\ text = DumpsText(text[1].of)
LoadsText(text) == text[1].of

\* a write at offset 0 of a file that holds old
Overlay(old, new) == new \o SubSeq(old, Len(new) + 1, Len(old))

\* the directory without a name
Unlinked(dir, name) == [n \in DOMAIN dir \ {name} |-> dir[n]]

Proc(p) == raceProcs[p]

\* lines 49-56: the payload is built and tmp_path opened for writing, which
\* creates the file or truncates the one of that name
SetOpen(p) ==
    /\ Proc(p).pc = "set_open"
    /\ IF TmpPath \in DOMAIN raceDir
       THEN /\ raceInodes' = [raceInodes EXCEPT ![raceDir[TmpPath]] = <<>>]
            /\ UNCHANGED raceDir
       ELSE /\ raceInodes' = Append(raceInodes, <<>>)
            /\ raceDir' = (TmpPath :> Len(raceInodes) + 1) @@ raceDir
    /\ raceProcs' = [raceProcs EXCEPT
           ![p].payload = Some([expires_at |-> ExpiresAt(raceNow, Proc(p).ttl_hours),
                                value |-> Proc(p).value]),
           ![p].fd = Some(raceDir'[TmpPath]),
           ![p].pc = "set_write"]
    /\ UNCHANGED <<raceNow, notRace>>

\* line 56: the text is written to the opened file and the file closed
SetWrite(p) ==
    /\ Proc(p).pc = "set_write"
    /\ raceInodes' = [raceInodes EXCEPT ![Proc(p).fd[1]] =
                          Overlay(@, DumpsText(Proc(p).payload[1]))]
    /\ raceProcs' = [raceProcs EXCEPT ![p].fd = None, ![p].pc = "set_replace"]
    /\ UNCHANGED <<raceDir, raceNow, notRace>>

\* line 57: os.replace(tmp_path, path), FileNotFoundError without tmp_path
SetReplace(p) ==
    /\ Proc(p).pc = "set_replace"
    /\ IF TmpPath \in DOMAIN raceDir
       THEN /\ raceDir' = (KeyPath :> raceDir[TmpPath]) @@ Unlinked(raceDir, TmpPath)
            /\ raceProcs' = [raceProcs EXCEPT ![p].pc = "done"]
       ELSE /\ raceProcs' = [raceProcs EXCEPT ![p].pc = "raised",
                                               ![p].error = "FileNotFoundError"]
            /\ UNCHANGED raceDir
    /\ UNCHANGED <<raceInodes, raceNow, notRace>>

\* lines 28-30
GetExists(p) ==
    /\ Proc(p).pc = "get_exists"
    /\ raceProcs' = [raceProcs EXCEPT
           ![p].pc = IF KeyPath \in DOMAIN raceDir THEN "get_read" ELSE "done"]
    /\ UNCHANGED <<raceDir, raceInodes, raceNow, notRace>>

\* lines 32-38 and 46: the file is read and loaded, None for a file that has
\* gone or does not load; the expiry is compared with the time
GetRead(p) ==
    /\ Proc(p).pc = "get_read"
    /\ LET text == raceInodes[raceDir[KeyPath]]
       IN  raceProcs' = [raceProcs EXCEPT ![p] =
               IF KeyPath \notin DOMAIN raceDir \/ ~Loadable(text)
               THEN [@ EXCEPT !.pc = "done"]
               ELSE IF Expired(LoadsText(text), raceNow)
                    THEN [@ EXCEPT !.pc = "get_unlink"]
                    ELSE [@ EXCEPT !.pc = "done", !.ret = Some(LoadsText(text).value)]]
    /\ UNCHANGED <<raceDir, raceInodes, raceNow, notRace>>

\* lines 39-44: path.unlink(), an OSError passed over
GetUnlink(p) ==
    /\ Proc(p).pc = "get_unlink"
    /\ raceDir' = Unlinked(raceDir, KeyPath)
    /\ raceProcs' = [raceProcs EXCEPT ![p].pc = "done"]
    /\ UNCHANGED <<raceInodes, raceNow, notRace>>

\* time passes, an hour at once
RaceTick ==
    /\ raceNow < StartTime + MaxRaceTicks * SecondsPerHour
    /\ raceNow' = raceNow + SecondsPerHour
    /\ UNCHANGED <<raceDir, raceInodes, raceProcs, notRace>>

NextRace ==
    \/ \E p \in RaceProcs : SetOpen(p)
    \/ \E p \in RaceProcs : SetWrite(p)
    \/ \E p \in RaceProcs : SetReplace(p)
    \/ \E p \in RaceProcs : GetExists(p)
    \/ \E p \in RaceProcs : GetRead(p)
    \/ \E p \in RaceProcs : GetUnlink(p)
    \/ RaceTick

\* the calls a process may make on the key
SetCall(value, ttl_hours) ==
    [op |-> "set", value |-> value, ttl_hours |-> ttl_hours, pc |-> "set_open",
     payload |-> None, fd |-> None, ret |-> None, error |-> ""]

GetCall ==
    [op |-> "get", value |-> "", ttl_hours |-> 0, pc |-> "get_exists",
     payload |-> None, fd |-> None, ret |-> None, error |-> ""]

RaceCalls == {GetCall} \cup {SetCall(v, t) : v \in RaceValues, t \in RaceTtls}

\* an empty cache directory and one call per process
InitRace ==
    /\ raceDir = <<>>
    /\ raceInodes = <<>>
    /\ raceNow = StartTime
    /\ raceProcs \in [RaceProcs -> RaceCalls]
    /\ IdleButRace

SpecRace == InitRace /\ [][NextRace]_vars

(***************************************************************************)
(* The file-backed alert store (app/alerts.py), Supabase not configured    *)
(***************************************************************************)
MaxAlerts == 2
MaxAdds == 1

\* str.upper() of a text of these letters
UpperOf(c) ==
    IF c = "a" THEN "A" ELSE IF c = "x" THEN "X" ELSE IF c = "t" THEN "T" ELSE c
Upper(text) == [i \in 1..Len(text) |-> UpperOf(text[i])]

\* dict.get(key): None for a key the dict does not have
DictGet(dict, key) == IF key \in DOMAIN dict THEN Some(dict[key]) ELSE None

\* lines 50-59: the alerts of the file, none for a file that is missing, does
\* not load or is not a list
load_alerts(file) == IF file.state = "list" THEN file.alerts ELSE <<>>

\* lines 66-68
save_alerts(alerts) == [state |-> "list", alerts |-> alerts]

\* line 90: the ids uuid4 issues, no two the same
Uuid4(n) == <<"u1", "u2", "u3", "u4", "u5">>[n]

\* lines 89-95
NewAlert(n, ticker, threshold) ==
    [id |-> Uuid4(n), ticker |-> Upper(ticker), type |-> "RSI", threshold |-> threshold,
     note |-> ""]

\* Without dropping the first alert of the id alone
Without_First(alerts, alert_id) ==
    LET at == {i \in 1..Len(alerts) : DictGet(alerts[i], "id") = alert_id}
        first == CHOOSE i \in at : \A j \in at : i <= j
    IN  IF at = {} THEN alerts
        ELSE SubSeq(alerts, 1, first - 1) \o SubSeq(alerts, first + 1, Len(alerts))

\* line 107
Without(alerts, alert_id) ==
    SelectSeq(alerts, LAMBDA alert : DictGet(alert, "id") # alert_id)

\* lines 130-132: the changes whose value is not None are put into the alert
Changed(alert, changes) ==
    LET put == {key \in DOMAIN changes : changes[key] # None}
    IN  [key \in DOMAIN alert \cup put |->
            IF key \in put THEN changes[key][1] ELSE alert[key]]

\* Updated changing every alert of the id
Updated_Every(alerts, alert_id, changes) ==
    [i \in 1..Len(alerts) |->
        IF DictGet(alerts[i], "id") = alert_id THEN Changed(alerts[i], changes)
        ELSE alerts[i]]

\* lines 127-134: the first alert of the id is changed
Updated(alerts, alert_id, changes) ==
    LET at == {i \in 1..Len(alerts) : DictGet(alerts[i], "id") = alert_id}
        first == CHOOSE i \in at : \A j \in at : i <= j
    IN  IF at = {} THEN alerts
        ELSE [alerts EXCEPT ![first] = Changed(alerts[first], changes)]

\* lines 128-133: updated
IsUpdated(alerts, alert_id) ==
    \E i \in 1..Len(alerts) : DictGet(alerts[i], "id") = alert_id

TickerA == <<"a">>
TickerX == <<"X">>

\* the arguments of the calls
AlertTickers == {TickerA, TickerX}
AlertIds == {Some("a"), Some("b"), Some("c")}
AlertChanges ==
    {<<>>, [threshold |-> Some(20)], [threshold |-> None],
     [threshold |-> Some(20), note |-> None], [note |-> Some("n")]}

\* lines 89-99
AddAlert ==
    /\ alertSeq < MaxAdds
    /\ \E ticker \in AlertTickers :
          LET alert == NewAlert(alertSeq + 1, ticker, 30)
              before == load_alerts(alertsFile)
          IN  /\ alertsFile' = save_alerts(Append(before, alert))
              /\ alertCall' = [op |-> "add", alert_id |-> None, changes |-> <<>>,
                               file |-> alertsFile, before |-> before, ret |-> Some(alert)]
    /\ alertSeq' = alertSeq + 1
    /\ UNCHANGED <<alertProcs, notAlert>>

\* lines 107-108
DeleteAlert ==
    /\ \E alert_id \in AlertIds :
          LET before == load_alerts(alertsFile)
          IN  /\ alertsFile' = save_alerts(Without(before, alert_id))
              /\ alertCall' = [op |-> "delete", alert_id |-> alert_id, changes |-> <<>>,
                               file |-> alertsFile, before |-> before, ret |-> None]
    /\ UNCHANGED <<alertSeq, alertProcs, notAlert>>

\* lines 126-137
UpdateAlert ==
    /\ \E alert_id \in AlertIds, changes \in AlertChanges :
          LET before == load_alerts(alertsFile)
          IN  /\ alertsFile' = IF IsUpdated(before, alert_id)
                               THEN save_alerts(Updated(before, alert_id, changes))
                               ELSE alertsFile
              /\ alertCall' = [op |-> "update", alert_id |-> alert_id, changes |-> changes,
                               file |-> alertsFile, before |-> before,
                               ret |-> Some(IsUpdated(before, alert_id))]
    /\ UNCHANGED <<alertSeq, alertProcs, notAlert>>

NextAlerts == AddAlert \/ DeleteAlert \/ UpdateAlert

\* the alerts a file may hold: two of one id, one of another, one without id
StoredAlerts ==
    {[id |-> "a", ticker |-> <<"A">>, type |-> "RSI", threshold |-> 30, note |-> ""],
     [id |-> "a", ticker |-> <<"X">>, type |-> "RSI", threshold |-> 40, note |-> ""],
     [id |-> "b", ticker |-> <<"A">>, type |-> "RSI", threshold |-> 30, note |-> ""],
     [ticker |-> <<"X">>, type |-> "RSI", threshold |-> 30]}

\* the file is missing, holds something that is not a list, or holds alerts
InitAlerts ==
    /\ alertsFile \in {[state |-> "absent", alerts |-> <<>>],
                        [state |-> "other", alerts |-> <<>>]}
                           \cup {save_alerts(alerts) : alerts \in SeqsUpTo(StoredAlerts, MaxAlerts)}
    /\ alertSeq = 0
    /\ alertCall = <<>>
    /\ alertProcs = <<>>
    /\ IdleButAlert

SpecAlerts == InitAlerts /\ [][NextAlerts]_vars

(***************************************************************************)
(* The alert store called by concurrent processes: each call loads the     *)
(* file, changes the list it loaded, and saves it by opening the file for  *)
(* writing, which truncates it, and writing the list.                      *)
(***************************************************************************)
AlertProcs == {"q1", "q2"}

Caller(p) == alertProcs[p]

\* lines 89-97, 107 and 126-135: the file is loaded and the loaded list changed
AlertLoad(p) ==
    /\ Caller(p).pc = "load"
    /\ LET loaded == load_alerts(alertsFile)
           alert == NewAlert(alertSeq + 1, Caller(p).ticker, 30)
       IN  CASE Caller(p).op = "add" ->
                 /\ alertSeq' = alertSeq + 1
                 /\ alertProcs' = [alertProcs EXCEPT
                        ![p].alerts = Append(loaded, alert),
                        ![p].alert = Some(alert),
                        ![p].pc = "open"]
             [] Caller(p).op = "delete" ->
                 /\ alertProcs' = [alertProcs EXCEPT
                        ![p].alerts = Without(loaded, Caller(p).alert_id),
                        ![p].pc = "open"]
                 /\ UNCHANGED alertSeq
             [] Caller(p).op = "update" ->
                 /\ alertProcs' = [alertProcs EXCEPT
                        ![p].alerts = Updated(loaded, Caller(p).alert_id, Caller(p).changes),
                        ![p].pc = IF IsUpdated(loaded, Caller(p).alert_id)
                                  THEN "open" ELSE "done",
                        ![p].ret = Some(IsUpdated(loaded, Caller(p).alert_id))]
                 /\ UNCHANGED alertSeq
    /\ UNCHANGED <<alertsFile, alertCall, notAlert>>

\* line 67: ALERTS_FILE.open("w") leaves the file empty
AlertOpen(p) ==
    /\ Caller(p).pc = "open"
    /\ alertsFile' = [state |-> "truncated", alerts |-> <<>>]
    /\ alertProcs' = [alertProcs EXCEPT ![p].pc = "write"]
    /\ UNCHANGED <<alertSeq, alertCall, notAlert>>

\* line 68 and the return: the list is written
AlertWrite(p) ==
    /\ Caller(p).pc = "write"
    /\ alertsFile' = save_alerts(Caller(p).alerts)
    /\ alertProcs' = [alertProcs EXCEPT
           ![p].pc = "done",
           ![p].ret = IF Caller(p).op = "add" THEN Caller(p).alert ELSE @]
    /\ UNCHANGED <<alertSeq, alertCall, notAlert>>

NextAlertRace ==
    \/ \E p \in AlertProcs : AlertLoad(p)
    \/ \E p \in AlertProcs : AlertOpen(p)
    \/ \E p \in AlertProcs : AlertWrite(p)

\* the calls of the concurrent processes
AlertRaceCall(op, ticker, alert_id, changes) ==
    [op |-> op, ticker |-> ticker, alert_id |-> alert_id, changes |-> changes,
     pc |-> "load", alerts |-> <<>>, alert |-> None, ret |-> None]

AlertRaceCalls ==
    {AlertRaceCall("add", t, None, <<>>) : t \in AlertTickers}
        \cup {AlertRaceCall("delete", <<>>, i, <<>>) : i \in {Some("b"), Some("c")}}
        \cup {AlertRaceCall("update", <<>>, i, [threshold |-> Some(20)]) :
                  i \in {Some("b"), Some("c")}}

\* the file is missing or holds one alert; each process makes one call
InitAlertRace ==
    /\ alertsFile \in {[state |-> "absent", alerts |-> <<>>],
                        save_alerts(<<[id |-> "b", ticker |-> <<"A">>, type |-> "RSI",
                                       threshold |-> 30, note |-> ""]>>)}
    /\ alertSeq = 0
    /\ alertCall = <<>>
    /\ alertProcs \in [AlertProcs -> AlertRaceCalls]
    /\ IdleButAlert

SpecAlertRace == InitAlertRace /\ [][NextAlertRace]_vars

(***************************************************************************)
(* The portfolio store (app/portfolio.py) and the ticker normalisation of  *)
(* app/market_data.py                                                      *)
(***************************************************************************)
MaxUuids == 3

UpperLetters == {"A", "X", "T"}

\* _JP_SYMBOL_RE, ^(\d{4}|\d{3}[A-Z])\.T$, matching the whole text
IsJpSymbol(text) ==
    /\ Len(text) = 6
    /\ text[5] = "." /\ text[6] = "T"
    /\ \A i \in 1..3 : text[i] \in Digits
    /\ text[4] \in Digits \cup UpperLetters

\* app/market_data.py lines 30-34
normalize_ticker_for_display(ticker) ==
    LET cleaned == Upper(Strip(ticker))
    IN  IF IsJpSymbol(cleaned) THEN SubSeq(cleaned, 1, Len(cleaned) - 2) ELSE cleaned

\* lines 57-58
_normalize_ticker(ticker) == normalize_ticker_for_display(ticker)

\* lines 61-79 for the lists save_holdings writes: every item is a dict with an
\* id, a ticker and a number of shares
_normalize_holdings(raw) ==
    LET kept == SelectSeq(raw, LAMBDA item :
                    _normalize_ticker(item.ticker) # <<>> /\ item.shares > 0)
    IN  [i \in 1..Len(kept) |->
            [id |-> kept[i].id, ticker |-> _normalize_ticker(kept[i].ticker),
             shares |-> kept[i].shares]]

\* lines 15-23
load_holdings(file) ==
    IF file.state = "list" THEN _normalize_holdings(file.holdings) ELSE <<>>

\* lines 26-29
save_holdings(holdings) == [state |-> "list", holdings |-> holdings]

\* the place of the first holding of the ticker, 0 without one
PlaceOfTicker(holdings, normalized) ==
    LET at == {i \in 1..Len(holdings) : holdings[i].ticker = normalized}
    IN  IF at = {} THEN 0 ELSE CHOOSE i \in at : \A j \in at : i <= j

\* Upserted adding a holding whether or not the ticker is held
Upserted_AlwaysNew(holdings, normalized, shares, n) ==
    Append(holdings, [id |-> Uuid4(n), ticker |-> normalized, shares |-> shares])

\* lines 40-47: the holding of the ticker gets the shares, or a new holding is
\* appended
Upserted(holdings, normalized, shares, n) ==
    LET at == PlaceOfTicker(holdings, normalized)
    IN  IF at # 0 THEN [holdings EXCEPT ![at].shares = shares]
        ELSE Append(holdings, [id |-> Uuid4(n), ticker |-> normalized, shares |-> shares])

\* the tickers and the numbers of shares upsert_holding is called with
PortfolioTickers ==
    {<<>>, <<" ">>, <<"x", " ">>,
     <<"7", "2", "0", "3">>, <<"7", "2", "0", "3", ".", "t">>,
     <<"7", "2", "0", "a", ".", "T">>}
PortfolioShares == {-1, 0, 1, 2}

\* lines 32-49
UpsertHolding ==
    /\ \E ticker \in PortfolioTickers, shares \in PortfolioShares :
          LET normalized == _normalize_ticker(ticker)
              holdings == load_holdings(portfolioFile)
              at == PlaceOfTicker(holdings, normalized)
              after == Upserted(holdings, normalized, shares, portfolioSeq + 1)
              call == [op |-> "upsert", ticker |-> ticker, shares |-> shares,
                       holding_id |-> "", file |-> portfolioFile]
          IN  IF normalized = <<>> \/ shares <= 0
              THEN /\ portfolioCall' = call @@ [error |-> "ValueError", ret |-> None]
                   /\ UNCHANGED <<portfolioFile, portfolioSeq>>
              ELSE /\ at = 0 => portfolioSeq < MaxUuids
                   /\ portfolioFile' = save_holdings(after)
                   /\ portfolioSeq' = IF at = 0 THEN portfolioSeq + 1 ELSE portfolioSeq
                   /\ portfolioCall' = call @@
                          [error |-> "",
                           ret |-> Some(after[IF at = 0 THEN Len(after) ELSE at])]
    /\ UNCHANGED notPortfolio

\* lines 52-54
DeleteHolding ==
    /\ \E holding_id \in {Uuid4(n) : n \in 1..MaxUuids} :
          /\ portfolioFile' = save_holdings(
                 SelectSeq(load_holdings(portfolioFile), LAMBDA h : h.id # holding_id))
          /\ portfolioCall' = [op |-> "delete", ticker |-> <<>>, shares |-> 0,
                               holding_id |-> holding_id, file |-> portfolioFile,
                               error |-> "", ret |-> None]
    /\ UNCHANGED <<portfolioSeq, notPortfolio>>

NextPortfolio == UpsertHolding \/ DeleteHolding

\* the store is empty: the file is missing
InitPortfolio ==
    /\ portfolioFile = [state |-> "absent", holdings |-> <<>>]
    /\ portfolioSeq = 0
    /\ portfolioCall = <<>>
    /\ IdleButPortfolio

SpecPortfolio == InitPortfolio /\ [][NextPortfolio]_vars

(***************************************************************************)
(* EdinetClient.list_documents (app/clients/edinet_client.py)              *)
(***************************************************************************)
DaysPerLimit == 400

\* str.lstrip("0")
RECURSIVE LStripZeros(_)
LStripZeros(text) ==
    IF text # <<>> /\ text[1] = "0" THEN LStripZeros(Tail(text)) ELSE text

\* lines 127-131
_normalize_code(code, is_security_code) ==
    IF is_security_code THEN LStripZeros(code) ELSE Upper(code)

\* line 41: the allowed forms, None without form codes
AllowedForms(form_codes) ==
    IF form_codes = None \/ form_codes[1] = {} THEN None ELSE Some(form_codes[1])

\* Accepts without the test of seen_doc_ids
Accepts_SeenAgain(row, args, seen) ==
    LET allowed == AllowedForms(args.form_codes)
        candidate == IF args.use_security_code THEN row.secCode ELSE row.edinetCode
    IN  /\ allowed = None
           \/ (row.docTypeCode # None /\ row.docTypeCode[1] \in allowed[1])
        /\ candidate # None /\ candidate[1] # <<>>
        /\ _normalize_code(candidate[1], args.use_security_code)
               = _normalize_code(args.code, args.use_security_code)
        /\ row.docID # None

\* lines 50-60: the row passes the form filter, has a candidate code that
\* normalises to the target code, and has a docID not seen before
Accepts(row, args, seen) ==
    LET allowed == AllowedForms(args.form_codes)
        candidate == IF args.use_security_code THEN row.secCode ELSE row.edinetCode
    IN  /\ allowed = None
           \/ (row.docTypeCode # None /\ row.docTypeCode[1] \in allowed[1])
        /\ candidate # None /\ candidate[1] # <<>>
        /\ _normalize_code(candidate[1], args.use_security_code)
               = _normalize_code(args.code, args.use_security_code)
        /\ row.docID # None
        /\ row.docID[1] \notin seen

\* lines 49-64: the rows of one day, in order, until results has limit rows
RECURSIVE TakeRows(_, _, _, _)
TakeRows(daily_rows, args, results, seen) ==
    IF daily_rows = <<>> \/ Len(results) >= args.limit
    THEN [results |-> results, seen |-> seen]
    ELSE IF Accepts(Head(daily_rows), args, seen)
         THEN TakeRows(Tail(daily_rows), args, Append(results, Head(daily_rows)),
                       seen \cup {Head(daily_rows).docID[1]})
         ELSE TakeRows(Tail(daily_rows), args, results, seen)

\* line 68: row.get("submitDateTime", "")
SubmitKey(row) == IF row.submitDateTime = None THEN <<>> ELSE row.submitDateTime[1]

\* InsertBySubmit with the earliest first
InsertBySubmit_Ascending(sorted, row) ==
    LET before == SelectSeq(sorted, LAMBDA r : ~TextLess(SubmitKey(row), SubmitKey(r)))
        after == SelectSeq(sorted, LAMBDA r : TextLess(SubmitKey(row), SubmitKey(r)))
    IN  before \o <<row>> \o after

\* a stable sort in reverse: the row goes behind the rows whose key is not less
InsertBySubmit(sorted, row) ==
    LET before == SelectSeq(sorted, LAMBDA r : ~TextLess(SubmitKey(r), SubmitKey(row)))
        after == SelectSeq(sorted, LAMBDA r : TextLess(SubmitKey(r), SubmitKey(row)))
    IN  before \o <<row>> \o after

\* line 68
RECURSIVE SortBySubmit(_)
SortBySubmit(rows) ==
    IF rows = <<>> THEN <<>>
    ELSE InsertBySubmit(SortBySubmit(SubSeq(rows, 1, Len(rows) - 1)), rows[Len(rows)])

\* lines 109-125: the listing of a day, none for a day the API has nothing for
Listed(rows) == [status |-> 200, results |-> rows]
ServerError == [status |-> 500, results |-> <<>>]
DailyRows(days, offset) == IF offset \in DOMAIN days THEN days[offset] ELSE Listed(<<>>)

\* lines 39-45
EdStart ==
    /\ edPc = "call"
    /\ edResults' = <<>>
    /\ edSeen' = {}
    /\ edOffset' = 0
    /\ edMaxDays' = Max(edArgs.limit * DaysPerLimit, DaysPerLimit)
    /\ edPc' = "loop"
    /\ UNCHANGED <<edDays, edArgs, edFetched, edReturn, notEdinet>>

\* lines 46-66: one day of the loop; an HTTP error other than 404 leaves
\* list_documents
EdDay ==
    /\ edPc = "loop"
    /\ Len(edResults) < edArgs.limit /\ edMaxDays > 0
    /\ edFetched' = edFetched + 1
    /\ IF DailyRows(edDays, edOffset).status # 200
       THEN /\ edPc' = "raised"
            /\ UNCHANGED <<edResults, edSeen, edOffset, edMaxDays>>
       ELSE LET taken == TakeRows(DailyRows(edDays, edOffset).results, edArgs, edResults,
                                  edSeen)
            IN  /\ edResults' = taken.results
                /\ edSeen' = taken.seen
                /\ edOffset' = edOffset + 1
                /\ edMaxDays' = edMaxDays - 1
                /\ UNCHANGED edPc
    /\ UNCHANGED <<edDays, edArgs, edReturn, notEdinet>>

\* lines 68-69
EdReturn ==
    /\ edPc = "loop"
    /\ ~(Len(edResults) < edArgs.limit /\ edMaxDays > 0)
    /\ edReturn' = Some(Take(SortBySubmit(edResults), edArgs.limit))
    /\ edPc' = "returned"
    /\ UNCHANGED <<edDays, edArgs, edResults, edSeen, edOffset, edMaxDays, edFetched,
                   notEdinet>>

NextEdinet == EdStart \/ EdDay \/ EdReturn

\* the rows of the daily listings
EdRow(docID, form, edinetCode, secCode, submitted) ==
    [docID |-> docID, docTypeCode |-> form, edinetCode |-> edinetCode,
     secCode |-> secCode, submitDateTime |-> submitted]

CodeX1 == <<"x", "1">>
Sec07 == <<"0", "7">>

RowA == EdRow(Some("D1"), Some("120"), Some(<<"X", "1">>), Some(<<"7">>), Some(<<"1">>))
RowB == EdRow(Some("D2"), Some("130"), Some(CodeX1), Some(Sec07), Some(<<"2">>))
RowAgain == EdRow(Some("D1"), Some("120"), Some(CodeX1), Some(Sec07), Some(<<"3">>))
RowOtherForm == EdRow(Some("D3"), Some("140"), Some(CodeX1), Some(Sec07), Some(<<"3">>))
RowOtherCode == EdRow(Some("D4"), Some("120"), Some(<<"x", "2">>), Some(<<"8">>), Some(<<"3">>))
RowNoDocId == EdRow(None, Some("120"), Some(CodeX1), Some(Sec07), Some(<<"3">>))
RowNoCode == EdRow(Some("D5"), Some("120"), None, None, Some(<<"3">>))
RowUndated == EdRow(Some("D6"), Some("120"), Some(CodeX1), Some(Sec07), None)

\* what the API lists for a day
DailyListings ==
    {Listed(<<>>), ServerError, Listed(<<RowA, RowB>>), Listed(<<RowB, RowAgain>>),
     Listed(<<RowUndated, RowA>>),
     Listed(<<RowOtherForm, RowOtherCode, RowNoDocId, RowNoCode, RowB>>)}

\* the days the API has documents for: today and the day before
DaysListed == {0, 1}
LimitsAsked == 0..2

InitEdinet ==
    /\ edDays \in [DaysListed -> DailyListings]
    /\ edArgs \in [code : {CodeX1}, form_codes : {None, Some({"120", "130"})},
                    limit : LimitsAsked, use_security_code : {FALSE}]
                       \cup [code : {Sec07}, form_codes : {None, Some({"120", "130"})},
                              limit : LimitsAsked, use_security_code : {TRUE}]
    /\ edPc = "call"
    /\ edResults = <<>>
    /\ edSeen = {}
    /\ edOffset = 0
    /\ edMaxDays = 0
    /\ edFetched = 0
    /\ edReturn = <<>>
    /\ IdleButEdinet

SpecEdinet == InitEdinet /\ [][NextEdinet]_vars

(***************************************************************************)
(* rsi_alert_scheduler: parse_times, next_run and the loop of main         *)
(***************************************************************************)
MaxPieces == 2
MaxSchedRuns == 1

HoursPerDay == 24
MinutesPerHour == 60
SecondsPerMinute == 60

\* datetime.time(hour, minute); ValueError outside 0..23 and 0..59
dt_time(hour, minute) == [hour |-> hour, minute |-> minute]
IsTime(hour, minute) ==
    hour \in 0..(HoursPerDay - 1) /\ minute \in 0..(MinutesPerHour - 1)

\* a piece of --times: blank after strip, or its fields between the colons,
\* each the integer int() makes of it, or None where int() raises ValueError
Piece(blank, fields) == [blank |-> blank, fields |-> fields]

\* line 22: the pieces that are not blank
Parts(pieces) == SelectSeq(pieces, LAMBDA piece : ~piece.blank)

\* lines 25-29: the time of a part, or None on ValueError (not two fields, a
\* field that is no integer, an hour or minute out of range)
TimeOfPart(part) ==
    IF Len(part.fields) # 2 THEN None
    ELSE IF part.fields[1] = None \/ part.fields[2] = None THEN None
    ELSE IF ~IsTime(part.fields[1][1], part.fields[2][1]) THEN None
    ELSE Some(dt_time(part.fields[1][1], part.fields[2][1]))

RECURSIVE TimesOfParts(_)
TimesOfParts(parts) ==
    IF parts = <<>> THEN <<>>
    ELSE TimeOfPart(Head(parts)) \o TimesOfParts(Tail(parts))

DefaultTimes == <<dt_time(7, 0), dt_time(12, 30)>>

parse_times(pieces) ==
    LET times == TimesOfParts(Parts(pieces))
    IN  IF times # <<>> THEN times ELSE DefaultTimes

\* a datetime of one timezone without daylight saving (JST); microseconds are
\* folded into the seconds
Datetime(day, hour, minute, second) ==
    [day |-> day, hour |-> hour, minute |-> minute, second |-> second]

\* datetime.__le__, same tzinfo: field by field
DtLess(a, b) ==
    \/ a.day < b.day
    \/ a.day = b.day /\ a.hour < b.hour
    \/ a.day = b.day /\ a.hour = b.hour /\ a.minute < b.minute
    \/ a.day = b.day /\ a.hour = b.hour /\ a.minute = b.minute /\ a.second < b.second

\* line 37 reads run_dt < now
Passed_Strict(run_dt, clock) == DtLess(run_dt, clock)
\* line 37: run_dt <= now
Passed(run_dt, clock) == DtLess(run_dt, clock) \/ run_dt = clock

\* lines 36-38
Candidate(clock, t) ==
    LET run_dt == [clock EXCEPT !.hour = t.hour, !.minute = t.minute, !.second = 0]
    IN  IF Passed(run_dt, clock) THEN [run_dt EXCEPT !.day = @ + 1] ELSE run_dt

\* min(candidates): the first of the least
RECURSIVE MinOf(_)
MinOf(candidates) ==
    IF Len(candidates) = 1 THEN candidates[1]
    ELSE LET rest == MinOf(Tail(candidates))
         IN  IF DtLess(rest, Head(candidates)) THEN rest ELSE Head(candidates)

\* seconds since midnight of day 0, and back
TotalSeconds(dt) ==
    ((dt.day * HoursPerDay + dt.hour) * MinutesPerHour + dt.minute) * SecondsPerMinute
        + dt.second
FromSeconds(s) ==
    Datetime(s \div (HoursPerDay * MinutesPerHour * SecondsPerMinute),
             (s \div (MinutesPerHour * SecondsPerMinute)) % HoursPerDay,
             (s \div SecondsPerMinute) % MinutesPerHour,
             s % SecondsPerMinute)

\* line 54
ParseTimes ==
    /\ schedPc = "main"
    /\ schedTimes' = parse_times(schedPieces)
    /\ schedPc' = "next_run"
    /\ UNCHANGED <<schedPieces, schedNow, schedCandidates, schedRunAt, schedRuns,
                   notSched>>

\* lines 35-39, one schedule time
NextRunTime ==
    /\ schedPc = "next_run"
    /\ Len(schedCandidates) < Len(schedTimes)
    /\ schedCandidates' =
           Append(schedCandidates,
                  Candidate(schedNow, schedTimes[Len(schedCandidates) + 1]))
    /\ UNCHANGED <<schedPieces, schedTimes, schedNow, schedPc, schedRunAt, schedRuns,
                   notSched>>

\* line 40; min raises ValueError on no candidate
NextRunReturn ==
    /\ schedPc = "next_run"
    /\ Len(schedCandidates) = Len(schedTimes)
    /\ IF schedCandidates = <<>>
       THEN schedRunAt' = None /\ schedPc' = "raised"
       ELSE schedRunAt' = Some(MinOf(schedCandidates)) /\ schedPc' = "sleep"
    /\ UNCHANGED <<schedPieces, schedTimes, schedNow, schedCandidates, schedRuns,
                   notSched>>

\* how long run_alerts may take, in seconds
RunTakes == {0, 59}

\* lines 60-68 and 58: sleep until run_at, run the alerts, sleep a second, read
\* the clock again
RunAlertsAndSleep ==
    /\ schedPc = "sleep"
    /\ schedRuns < MaxSchedRuns
    /\ \E took \in RunTakes :
           schedNow' = FromSeconds(TotalSeconds(schedRunAt[1]) + took + 1)
    /\ schedRuns' = schedRuns + 1
    /\ schedCandidates' = <<>>
    /\ schedRunAt' = None
    /\ schedPc' = "next_run"
    /\ UNCHANGED <<schedPieces, schedTimes, notSched>>

NextSched == ParseTimes \/ NextRunTime \/ NextRunReturn \/ RunAlertsAndSleep

\* what --times may hold between its commas
TimesPieces ==
    { Piece(FALSE, <<Some(7), Some(0)>>),    \* "07:00"
      Piece(FALSE, <<Some(12), Some(30)>>),  \* "12:30"
      Piece(FALSE, <<Some(23), Some(59)>>),  \* "23:59"
      Piece(FALSE, <<Some(0), Some(0)>>),    \* "0:00"
      Piece(FALSE, <<Some(24), Some(0)>>),   \* "24:00"
      Piece(FALSE, <<Some(7)>>),             \* "7"
      Piece(FALSE, <<None, Some(0)>>),       \* "x:00"
      Piece(TRUE, <<>>) }                    \* " "

PiecesGiven == UNION { [1..n -> TimesPieces] : n \in 0..MaxPieces }

\* the clock when main starts
NowHours == {0, 7, 23}
NowMinutes == {0, 30, 59}
NowSeconds == {0, 30}

InitSched ==
    /\ schedPieces \in PiecesGiven
    /\ schedNow \in { Datetime(0, h, m, s) : h \in NowHours, m \in NowMinutes,
                                             s \in NowSeconds }
    /\ schedTimes = <<>>
    /\ schedPc = "main"
    /\ schedCandidates = <<>>
    /\ schedRunAt = None
    /\ schedRuns = 0
    /\ IdleButSched

SpecSched == InitSched /\ [][NextSched]_vars

(***************************************************************************)
(* scripts/rsi_alert.py: run_alerts and check_ticker                       *)
(***************************************************************************)
MaxStored == 2
MaxPassed == 2

\* the code point of a character of a ticker
TickerCharCode(c) ==
    CASE c = " " -> 32 [] c = "." -> 46 [] c \in Digits -> 48 + DigitVal(c)
      [] c = "A" -> 65 [] c = "T" -> 84 [] c = "X" -> 88
      [] c = "a" -> 97 [] c = "t" -> 116 [] c = "x" -> 120

\* a < b on tickers
RECURSIVE TickerLess(_, _)
TickerLess(a, b) ==
    IF b = <<>> THEN FALSE
    ELSE IF a = <<>> THEN TRUE
    ELSE IF a[1] = b[1] THEN TickerLess(Tail(a), Tail(b))
    ELSE TickerCharCode(a[1]) < TickerCharCode(b[1])

\* sorted(...) of a set of tickers
RECURSIVE SortedTickers(_)
SortedTickers(tickers) ==
    IF tickers = {} THEN <<>>
    ELSE LET least == CHOOSE t \in tickers : \A u \in tickers \ {t} : TickerLess(t, u)
         IN  <<least>> \o SortedTickers(tickers \ {least})

\* dict[key] = value
WithKey(dict, key, value) ==
    [k \in DOMAIN dict \cup {key} |-> IF k = key THEN value ELSE dict[k]]

\* line 91: str(alert.get("ticker") or "")
TickerOrEmpty(alert) ==
    LET ticker == DictGet(alert, "ticker") IN IF ticker = None THEN <<>> ELSE ticker[1]

\* lines 90-94, the first n alerts
RECURSIVE AlertMapOf(_, _)
AlertMapOf(alerts, n) ==
    IF n = 0 THEN <<>>
    ELSE LET alert_map == AlertMapOf(alerts, n - 1)
             ticker == normalize_ticker_for_display(TickerOrEmpty(alerts[n]))
         IN  IF ticker # <<>> THEN WithKey(alert_map, ticker, alerts[n].threshold)
             ELSE alert_map

\* app/market_data.py lines 46-49 and rsi_alert.py lines 31-43: the RSI of the
\* last row that has one; no prices for the empty ticker
LatestRsi(market, display_ticker) ==
    IF display_ticker = <<>> THEN None ELSE market[display_ticker]

\* check_ticker with < for <= on line 45
check_ticker_Below(market, ticker, threshold) ==
    LET display_ticker == normalize_ticker_for_display(ticker)
        rsi_value == LatestRsi(market, display_ticker)
    IN  IF rsi_value = None THEN None
        ELSE IF rsi_value[1] < threshold
             THEN Some([ticker |-> display_ticker, rsi |-> rsi_value[1],
                        threshold |-> threshold])
             ELSE None
\* lines 29-55, without the date
check_ticker(market, ticker, threshold) ==
    LET display_ticker == normalize_ticker_for_display(ticker)
        rsi_value == LatestRsi(market, display_ticker)
    IN  IF rsi_value = None THEN None
        ELSE IF rsi_value[1] <= threshold
             THEN Some([ticker |-> display_ticker, rsi |-> rsi_value[1],
                        threshold |-> threshold])
             ELSE None

\* lines 87-97
RunLoad ==
    /\ rsiPc = "call"
    /\ LET alerts == load_alerts(alertsFile)
       IN  IF alerts # <<>>
           THEN /\ rsiAlertMap' = AlertMapOf(alerts, Len(alerts))
                /\ rsiList' = SortedTickers(DOMAIN rsiAlertMap')
           ELSE /\ rsiAlertMap' = <<>>
                /\ rsiList' = SortedTickers({normalize_ticker_for_display(rsiTickers[i]) :
                                                 i \in 1..Len(rsiTickers)})
    /\ rsiPc' = "config"
    /\ UNCHANGED <<rsiTickers, rsiConfig, rsiMarket, rsiMatches, rsiChecked, rsiSent,
                   notRsi>>

\* lines 99-111: sys.exit(1) without token or user id
RunConfig ==
    /\ rsiPc = "config"
    /\ rsiPc' = IF rsiConfig.line_channel_access_token = <<>>
                       \/ rsiConfig.line_target_user_id = <<>>
                THEN "exited" ELSE "loop"
    /\ rsiMatches' = <<>>
    /\ UNCHANGED <<rsiTickers, rsiConfig, rsiMarket, rsiAlertMap, rsiList, rsiChecked,
                   rsiSent, notRsi>>

\* lines 112-117, one ticker
RunCheck ==
    /\ rsiPc = "loop"
    /\ Len(rsiChecked) < Len(rsiList)
    /\ LET normalized == normalize_ticker_for_display(rsiList[Len(rsiChecked) + 1])
           stored == DictGet(rsiAlertMap, normalized)
           threshold == IF stored = None THEN rsiConfig.rsi_alert_threshold ELSE stored[1]
           result == check_ticker(rsiMarket, normalized, threshold)
       IN  /\ rsiChecked' = Append(rsiChecked, [ticker |-> normalized,
                                                threshold |-> threshold])
           /\ rsiMatches' = rsiMatches \o result
    /\ UNCHANGED <<rsiTickers, rsiConfig, rsiMarket, rsiPc, rsiAlertMap, rsiList, rsiSent,
                   notRsi>>

\* lines 119-124
RunNotify ==
    /\ rsiPc = "loop"
    /\ Len(rsiChecked) = Len(rsiList)
    /\ rsiSent' = IF rsiMatches # <<>> THEN Append(rsiSent, rsiMatches) ELSE rsiSent
    /\ rsiPc' = "done"
    /\ UNCHANGED <<rsiTickers, rsiConfig, rsiMarket, rsiAlertMap, rsiList, rsiMatches,
                   rsiChecked, notRsi>>

NextRsi == RunLoad \/ RunConfig \/ RunCheck \/ RunNotify

\* the tickers of the stored alerts and of the call
T7203 == <<"7", "2", "0", "3">>
T7203t == <<"7", "2", "0", "3", ".", "t">>
Tx == <<"x">>
TBlank == <<" ">>

\* the alerts the file may hold: two of one ticker written in two ways, with
\* two thresholds; one of another ticker; one of a blank ticker; one of none
RsiStoredAlerts ==
    {[id |-> "a", ticker |-> T7203, type |-> "RSI", threshold |-> 30, note |-> ""],
     [id |-> "b", ticker |-> T7203t, type |-> "RSI", threshold |-> 40, note |-> ""],
     [id |-> "c", ticker |-> Tx, type |-> "RSI", threshold |-> 30, note |-> ""],
     [id |-> "d", ticker |-> TBlank, type |-> "RSI", threshold |-> 40, note |-> ""],
     [id |-> "e", type |-> "RSI", threshold |-> 40]}

RsiPassedTickers == {T7203t, Tx}
RsiValues == {None, Some(30), Some(40)}
\* no RSI, or one at, or one above the lower threshold
RsiMarkets ==
    {[t \in {normalize_ticker_for_display(T7203), normalize_ticker_for_display(Tx)} |->
          IF t = normalize_ticker_for_display(Tx) THEN ofX ELSE of7203] :
         of7203 \in RsiValues, ofX \in {None, Some(30)}}
\* RSI_ALERT_THRESHOLD of the environment
RsiDefaultThreshold == 30
RsiConfigs ==
    [line_channel_access_token : {<<>>, <<"k">>}, line_target_user_id : {<<"u">>},
     rsi_alert_threshold : {RsiDefaultThreshold}]
        \cup [line_channel_access_token : {<<"k">>}, line_target_user_id : {<<>>},
              rsi_alert_threshold : {RsiDefaultThreshold}]

InitRsi ==
    /\ alertsFile \in {[state |-> "absent", alerts |-> <<>>]}
                          \cup {save_alerts(alerts) :
                                    alerts \in SeqsUpTo(RsiStoredAlerts, MaxStored)}
    /\ alertSeq = 0
    /\ alertCall = <<>>
    /\ alertProcs = <<>>
    /\ rsiTickers \in SeqsUpTo(RsiPassedTickers, MaxPassed)
    /\ rsiConfig \in RsiConfigs
    /\ rsiMarket \in RsiMarkets
    /\ rsiPc = "call"
    /\ rsiAlertMap = <<>>
    /\ rsiList = <<>>
    /\ rsiMatches = <<>>
    /\ rsiChecked = <<>>
    /\ rsiSent = <<>>
    /\ IdleEarlier
    /\ IdleYoy
    /\ IdleRace
    /\ IdlePortfolio
    /\ IdleEdinet
    /\ IdleSched

SpecRsi == InitRsi /\ [][NextRsi]_vars

(***************************************************************************)
(* Notions the properties share                                            *)
(***************************************************************************)
Concepts(m) == METRIC_CONCEPTS_JP[m]

\* element fi is an element of concept ci of metric m, whose prefix is declared
Matches(m, ci, fi) ==
    /\ Concepts(m)[ci][1] \in DOMAIN nsmap
    /\ facts[fi].ns = nsmap[Concepts(m)[ci][1]]
    /\ facts[fi].local = Concepts(m)[ci][2]

\* the <<concept index, element index>> pairs of metric m, in scan order when
\* compared with Before
Pairs(m) == {<<ci, fi>> \in (1..Len(Concepts(m))) \X (1..Len(facts)) : Matches(m, ci, fi)}

Before(a, b) == a[1] < b[1] \/ (a[1] = b[1] /\ a[2] < b[2])

\* the key under which parse_file looks a fact's context up
ContextKey(f) == OrEmpty(f.contextRef)

\* the pair yields a point of year y: resolvable context of that year, numeric text
Yields(m, pair, y) ==
    LET f == facts[pair[2]]
    IN  /\ pair \in Pairs(m)
        /\ ContextKey(f) \in DOMAIN contexts
        /\ contexts[ContextKey(f)].year = Some(y)
        /\ f.text # <<>>
        /\ ParseFloat(f.text) # None

YearsOfContexts == {contexts[k].year[1] : k \in {x \in DOMAIN contexts : contexts[x].year # None}}

YearsOf(series) == {series[i].year : i \in 1..Len(series)}

(***************************************************************************)
(* Properties                                                              *)
(***************************************************************************)
\* C1: concept priority.  For every scanned metric and every year, when some
\* elements of the metric's concepts yield a point of that year, the series has
\* an entry of that year and it carries the value of the first such element in
\* scan order: the earlier-listed concept first, and within one concept the
\* earlier element of the document.
C1_ConceptPriority ==
    \A m \in DOMAIN metrics : \A y \in YearsOfContexts : \A first \in Pairs(m) :
        (/\ Yields(m, first, y)
         /\ \A other \in Pairs(m) : Yields(m, other, y) => ~Before(other, first))
        => /\ \E i \in 1..Len(metrics[m]) : metrics[m][i].year = Some(y)
           /\ \A i \in 1..Len(metrics[m]) :
                 metrics[m][i].year = Some(y)
                 => metrics[m][i].value = ParseFloat(facts[first[2]].text)

\* C1 witness: both revenue concepts report the same year with different values,
\* the later-listed concept standing earlier in the document, and the series
\* carries the value of the earlier-listed concept.
C1_Witness ==
    /\ pc = "done"
    /\ \E y \in YearsOfContexts : \E a, b \in Pairs("revenue") :
          /\ a[1] = 1 /\ b[1] = 2 /\ b[2] < a[2]
          /\ Yields("revenue", a, y) /\ Yields("revenue", b, y)
          /\ ParseFloat(facts[a[2]].text) # ParseFloat(facts[b[2]].text)
          /\ Len(metrics["revenue"]) = 1
          /\ metrics["revenue"][1].value = ParseFloat(facts[a[2]].text)

\* C2: every series is strictly ascending by year, hence has one entry per year.
C2_StrictlyAscending ==
    \A m \in DOMAIN metrics : \A i, j \in 1..Len(metrics[m]) :
        i < j => metrics[m][i].year[1] < metrics[m][j].year[1]

\* C2 witness: the points of revenue were collected in descending year order and
\* the series has both years.
C2_Witness ==
    /\ pc = "done"
    /\ Len(points["revenue"]) = 2
    /\ points["revenue"][1].year[1] > points["revenue"][2].year[1]
    /\ Len(metrics["revenue"]) = 2

\* the years for which some element of a concept of metric m yields a point
YieldedYears(m) == {y \in YearsOfContexts : \E pair \in Pairs(m) : Yields(m, pair, y)}

\* C4: every candidate concept is scanned.  The years of a metric's series are
\* exactly the years for which an element of any of its concepts (of a declared
\* prefix) has a resolvable context, a year and a numeric value.
C4_AllConceptsScanned ==
    \A m \in DOMAIN metrics : YearsOf(metrics[m]) = {Some(y) : y \in YieldedYears(m)}

\* C4 witness: one year of the revenue series is reported by the first concept
\* only and another by the second concept only.
C4_Witness ==
    /\ pc = "done"
    /\ \E y1, y2 \in YieldedYears("revenue") :
          /\ y1 # y2
          /\ \A pair \in Pairs("revenue") : Yields("revenue", pair, y1) => pair[1] = 1
          /\ \A pair \in Pairs("revenue") : Yields("revenue", pair, y2) => pair[1] = 2
          /\ YearsOf(metrics["revenue"]) = {Some(y1), Some(y2)}

\* the texts of the documents that are numbers, and the numbers they are
NumericTexts == {T100, T200}
NumberOf(text) == IF text = T100 THEN [m |-> 100, e |-> 0] ELSE [m |-> 200, e |-> 0]

\* C3: no entry of a series lacks its year or its value; every entry comes from
\* an element with numeric text whose context has a year (an element with empty
\* or non-numeric text, or of a context without a year, contributes none), and
\* every such element's year is in the series whatever the other elements are.
C3_NoAbsentYearOrValue ==
    \A m \in DOMAIN metrics :
        /\ \A i \in 1..Len(metrics[m]) :
              /\ metrics[m][i].year # None
              /\ metrics[m][i].value # None
              /\ \E pair \in Pairs(m) :
                    LET f == facts[pair[2]]
                    IN  /\ f.text \in NumericTexts
                        /\ metrics[m][i].value = Some(NumberOf(f.text))
                        /\ ContextKey(f) \in DOMAIN contexts
                        /\ contexts[ContextKey(f)].year = metrics[m][i].year
        /\ \A pair \in Pairs(m) :
              LET f == facts[pair[2]]
              IN  (/\ f.text \in NumericTexts
                   /\ ContextKey(f) \in DOMAIN contexts
                   /\ contexts[ContextKey(f)].year # None)
                  => contexts[ContextKey(f)].year \in YearsOf(metrics[m])

\* C3 witness: a revenue element with non-numeric text in a dated context and a
\* numeric one in another dated context; the series has the second one only.
C3_Witness ==
    /\ pc = "done"
    /\ \E a, b \in 1..Len(facts) :
          /\ facts[a].text = NotANumber /\ facts[b].text = T100
          /\ ContextKey(facts[a]) \in DOMAIN contexts
          /\ ContextKey(facts[b]) \in DOMAIN contexts
          /\ contexts[ContextKey(facts[a])].year = Some(2022)
          /\ contexts[ContextKey(facts[b])].year = Some(2023)
    /\ Len(points["revenue"]) = 2
    /\ Len(metrics["revenue"]) = 1
    /\ metrics["revenue"][1].year = Some(2023)

\* the document has an element of a concept of metric m, whatever the prefixes
\* the root declares
Occurs(m) ==
    \E ci \in 1..Len(Concepts(m)) : \E fi \in 1..Len(facts) :
        /\ facts[fi].ns = UriOf(Concepts(m)[ci][1])
        /\ facts[fi].local = Concepts(m)[ci][2]

\* C5: the returned mapping has exactly the configured metric names as keys, and
\* a metric none of whose concepts occurs in the document maps to the empty list.
C5_AllMetricsKeyed ==
    /\ pc = "done" =>
          DOMAIN metrics = {"revenue", "operating_income", "net_income", "operating_cash_flow"}
    /\ \A m \in DOMAIN metrics : ~Occurs(m) => metrics[m] = <<>>

\* C5 witness: parse_file has returned a revenue series with an entry, and the
\* empty list for net_income, whose concepts are not in the document.
C5_Witness ==
    /\ pc = "done"
    /\ metrics["revenue"] # <<>>
    /\ ~Occurs("net_income")
    /\ metrics["net_income"] = <<>>

\* C8: without a declaration of the xbrli prefix the context table and the unit
\* table stay empty and every metric maps to the empty series, all of them keys
\* of the mapping parse_file returns.
C8_NoStructuralPrefix ==
    "xbrli" \notin DOMAIN nsmap =>
        /\ DOMAIN contexts = {}
        /\ DOMAIN units = {}
        /\ \A m \in DOMAIN metrics : metrics[m] = <<>>
        /\ pc = "done" => DOMAIN metrics = MetricNames

\* C8 witness: parse_file has returned for a document with context and unit
\* elements and a numeric revenue element of a declared taxonomy prefix that
\* refers to one of the context elements, the xbrli prefix being undeclared.
C8_Witness ==
    /\ pc = "done"
    /\ "xbrli" \notin DOMAIN nsmap
    /\ unitDecls # <<>>
    /\ \E pair \in Pairs("revenue") : \E i \in 1..Len(ctxDecls) :
          /\ ctxDecls[i].id = facts[pair[2]].contextRef
          /\ facts[pair[2]].text = T100

\* C9: a concept of an undeclared prefix is skipped.  The points collected for a
\* metric are as many as the elements of its declared-prefix concepts with a
\* resolvable context, the years of its series are the years those elements
\* yield, and a metric all of whose concepts have undeclared prefixes has the
\* empty series.
C9_UndeclaredPrefixSkipped ==
    \A m \in DOMAIN metrics :
        /\ Len(points[m]) =
              Cardinality({pair \in Pairs(m) : ContextKey(facts[pair[2]]) \in DOMAIN contexts})
        /\ YearsOf(metrics[m]) = {Some(y) : y \in YieldedYears(m)}
        /\ (\A ci \in 1..Len(Concepts(m)) : Concepts(m)[ci][1] \notin DOMAIN nsmap)
           => metrics[m] = <<>>

\* C9 witness: the first revenue concept's prefix is undeclared and the second's
\* declared, the document has an element of each, and the series has the entry
\* of the second concept's element only.
C9_Witness ==
    /\ pc = "done"
    /\ "jpcrp030000-asr" \notin DOMAIN nsmap
    /\ "ifrs-full" \in DOMAIN nsmap
    /\ \E a, b \in 1..Len(facts) : facts[a].local = "NetSales" /\ facts[b].local = "Revenue"
    /\ Len(points["revenue"]) = 1
    /\ Len(metrics["revenue"]) = 1

\* the document declares a context under the key of the fact's context reference
ContextDeclared(f) ==
    \E i \in 1..Len(ctxDecls) : OrEmpty(ctxDecls[i].id) = OrEmpty(f.contextRef)

\* the document declares a unit with measure text under the key of the fact's
\* unit reference
UnitDeclared(f) ==
    \E i \in 1..Len(unitDecls) :
        /\ OrEmpty(unitDecls[i].id) = OrEmpty(f.unitRef)
        /\ unitDecls[i].measure # None
        /\ unitDecls[i].measure[1] # <<>>

\* the pairs of metric m whose element has a declared context, and the place of
\* such a pair among them in scan order
DatedPairs(m) == {pair \in Pairs(m) : ContextDeclared(facts[pair[2]])}
Rank(m, pair) == Cardinality({q \in DatedPairs(m) : Before(q, pair)}) + 1

\* C6: an element whose context reference resolves to no declared context is
\* skipped: the points of a metric are, in scan order, those of the elements
\* with a declared context.  An element whose unit reference resolves to no
\* declared unit keeps its point, with an absent unit, and the point's year is
\* in the series when its year and value are present.
C6_UnresolvedReferences ==
    \A m \in DOMAIN metrics :
        /\ Len(points[m]) = Cardinality(DatedPairs(m))
        /\ \A pair \in DatedPairs(m) :
              LET f == facts[pair[2]]
                  p == points[m][Rank(m, pair)]
              IN  /\ UnitDeclared(f) => p.unit = Some(<<"J", "P", "Y">>)
                  /\ ~UnitDeclared(f) => p.unit = None
                  /\ (~UnitDeclared(f) /\ p.year # None /\ p.value # None)
                     => p.year \in YearsOf(metrics[m])

\* C6 witness: one revenue element refers to the undeclared context c2 and
\* another to a declared context and to no declared unit; the second alone gives
\* a point, and the entry of the series has no unit.
C6_Witness ==
    /\ pc = "done"
    /\ \E a, b \in 1..Len(facts) :
          /\ facts[a].contextRef = Some("c2") /\ ~ContextDeclared(facts[a])
          /\ facts[b].contextRef = Some("c1") /\ ContextDeclared(facts[b])
          /\ facts[b].unitRef = Some("u1") /\ ~UnitDeclared(facts[b])
    /\ Len(points["revenue"]) = 1
    /\ Len(metrics["revenue"]) = 1
    /\ metrics["revenue"][1].unit = None

\* the pairs of metric m whose element names, in its contextRef attribute, the
\* id attribute of a context element
IdDatedPairs(m) ==
    {pair \in Pairs(m) :
        /\ facts[pair[2]].contextRef # None
        /\ facts[pair[2]].contextRef[1] # ""
        /\ \E i \in 1..Len(ctxDecls) : ctxDecls[i].id = facts[pair[2]].contextRef}

\* C7: a context element without id attribute matches no fact.  The points of a
\* metric are only those of the elements whose contextRef names the id of a
\* context element; an element without contextRef gives no point.
C7_IdlessContextNeverMatches ==
    \A m \in DOMAIN metrics : Len(points[m]) = Cardinality(IdDatedPairs(m))

\* the year each date text of the documents stands for
ExpectedYear(text) ==
    CASE text = D2022 -> Some(2022)
      [] text = D2023 -> Some(2023)
      [] text = Y2021 -> Some(2021)
      [] OTHER -> None

\* the last context element declared under key k, the one the table keeps
LastDeclared(k) ==
    ctxDecls[CHOOSE i \in 1..Len(ctxDecls) :
                /\ OrEmpty(ctxDecls[i].id) = k
                /\ \A j \in (i + 1)..Len(ctxDecls) : OrEmpty(ctxDecls[j].id) # k]

\* the text of a date element of a context element's period, empty when the
\* period or the element is missing
EndDateOf(d) ==
    IF d.period = None \/ d.period[1].endDate = None THEN <<>> ELSE d.period[1].endDate[1]
InstantOf(d) ==
    IF d.period = None \/ d.period[1].instant = None THEN <<>> ELSE d.period[1].instant[1]

\* C10: once the context table is built it has an entry for every context
\* element's id, and for each: with an end date, the year is the end date's year
\* (absent when it is no date) and the period type duration; otherwise with an
\* instant date, the year is the instant's year (absent when it is no date) and
\* the period type instant; with neither, the year is absent and the period type
\* duration.
C10_ContextYearAndPeriodType ==
    pc # "contexts" =>
        /\ DOMAIN contexts = {OrEmpty(ctxDecls[i].id) : i \in 1..Len(ctxDecls)}
        /\ \A k \in DOMAIN contexts :
              LET d == LastDeclared(k)
              IN  IF EndDateOf(d) # <<>>
                  THEN contexts[k] = [year |-> ExpectedYear(EndDateOf(d)),
                                      period_type |-> "duration"]
                  ELSE IF InstantOf(d) # <<>>
                       THEN contexts[k] = [year |-> ExpectedYear(InstantOf(d)),
                                           period_type |-> "instant"]
                       ELSE contexts[k] = [year |-> None, period_type |-> "duration"]

\* C10 witness: the table is built from a context c1 with both an end date and
\* an instant and a context c2 with an instant only.
C10_Witness ==
    /\ pc = "units"
    /\ \E i, j \in 1..Len(ctxDecls) :
          /\ ctxDecls[i].id = Some("c1")
          /\ EndDateOf(ctxDecls[i]) = D2022 /\ InstantOf(ctxDecls[i]) = D2023
          /\ ctxDecls[j].id = Some("c2")
          /\ EndDateOf(ctxDecls[j]) = <<>> /\ InstantOf(ctxDecls[j]) = D2023
    /\ contexts["c1"] = [year |-> Some(2022), period_type |-> "duration"]
    /\ contexts["c2"] = [year |-> Some(2023), period_type |-> "instant"]

\* the unit element has a measure element with text
HasMeasureText(u) == u.measure # None /\ u.measure[1] # <<>>

\* label is what follows the last colon of text: a suffix of text without a
\* colon that is the whole text or is preceded by a colon
IsLabelOf(label, text) ==
    LET n == Len(text) - Len(label)
    IN  /\ n >= 0
        /\ label = SubSeq(text, n + 1, Len(text))
        /\ \A i \in 1..Len(label) : label[i] # ":"
        /\ n = 0 \/ text[n] = ":"

\* C11: once the unit table is built from a document that declares the xbrli
\* prefix, its keys are the ids of the unit elements with measure text, and the
\* id of every such element (the last one declared under an id) maps to the
\* part of its measure text after the last colon, the whole text when it has no
\* colon; a unit element without measure element or measure text adds no entry.
C11_UnitLabelAfterLastColon ==
    (pc \notin {"contexts", "units"} /\ "xbrli" \in DOMAIN nsmap) =>
        /\ DOMAIN units = {OrEmpty(unitDecls[i].id) :
                              i \in {j \in 1..Len(unitDecls) : HasMeasureText(unitDecls[j])}}
        /\ \A i \in 1..Len(unitDecls) :
              (/\ HasMeasureText(unitDecls[i])
               /\ \A j \in (i + 1)..Len(unitDecls) :
                     HasMeasureText(unitDecls[j])
                     => OrEmpty(unitDecls[j].id) # OrEmpty(unitDecls[i].id))
              => IsLabelOf(units[OrEmpty(unitDecls[i].id)], unitDecls[i].measure[1])

\* C11 witness: the table is built from a unit u1 whose measure text has two
\* colons and a unit u2 without measure text; u1 maps to the part after the
\* second colon and u2 has no entry.
C11_Witness ==
    /\ pc = "scan"
    /\ "xbrli" \in DOMAIN nsmap
    /\ \E i, j \in 1..Len(unitDecls) :
          /\ unitDecls[i].id = Some("u1") /\ unitDecls[i].measure = Some(TwoColons)
          /\ unitDecls[j].id = Some("u2") /\ ~HasMeasureText(unitDecls[j])
    /\ units = ("u1" :> <<"c">>)

\* the text is a calendar date YYYY-MM-DD
IsCalendarDate(s) ==
    /\ Len(s) = 10
    /\ s[5] = "-" /\ s[8] = "-"
    /\ \A i \in {1, 2, 3, 4, 6, 7, 9, 10} : s[i] \in Digits
    /\ LET y == NatOf(SubSeq(s, 1, 4))
           m == NatOf(SubSeq(s, 6, 7))
           d == NatOf(SubSeq(s, 9, 10))
       IN  /\ m \in 1..12
           /\ d >= 1
           /\ d <= (IF m = 2 THEN (IF IsLeap(y) THEN 29 ELSE 28)
                    ELSE IF m \in {4, 6, 9, 11} THEN 30 ELSE 31)

\* the year of the first 10 characters when they are a calendar date, otherwise
\* the integer the first 4 characters are, otherwise absent
YearOfDateOrLeadingInteger(text) ==
    IF IsCalendarDate(Take(text, 10))
    THEN Some(NatOf(SubSeq(text, 1, 4)))
    ELSE ParseInt(Take(text, 4))

\* C12: the year derived from a date text is the year of its first 10
\* characters when they form an ISO calendar date, otherwise the integer value
\* of its first 4 characters when they form an integer, otherwise absent.
C12_YearOfDateOrLeadingInteger ==
    pc # "contexts" =>
        \A i \in 1..Len(ctxDecls) :
            contexts[OrEmpty(ctxDecls[i].id)].year
                = YearOfDateOrLeadingInteger(EndDateOf(ctxDecls[i]))

\* the pairs of metric m whose element is sound: a declared prefix, a declared
\* context with a parseable date, numeric text
SoundPairs(m) ==
    {pair \in Pairs(m) :
        LET f == facts[pair[2]]
        IN  /\ ContextDeclared(f)
            /\ ExpectedYear(EndDateOf(LastDeclared(ContextKey(f)))) # None
            /\ f.text \in NumericTexts}

SoundYear(f) == ExpectedYear(EndDateOf(LastDeclared(ContextKey(f))))

\* the years of every scanned metric's series are those of its sound elements,
\* and each entry is that of a sound element of its year
SoundEntriesKept ==
    \A m \in DOMAIN metrics :
        /\ YearsOf(metrics[m]) = {SoundYear(facts[pair[2]]) : pair \in SoundPairs(m)}
        /\ \A i \in 1..Len(metrics[m]) : \E pair \in SoundPairs(m) :
              LET f == facts[pair[2]]
              IN  metrics[m][i] =
                      [year |-> SoundYear(f),
                       value |-> Some(NumberOf(f.text)),
                       unit |-> IF UnitDeclared(f) THEN Some(<<"J", "P", "Y">>) ELSE None,
                       period_type |-> "duration"]

\* C13: whatever undeclared prefixes, unresolved context or unit references,
\* non-numeric texts and unparseable dates a document combines, parse_file
\* keeps a next step until it returns a mapping with every metric, and the
\* failures remove only the affected elements: every sound element's year is in
\* its metric's series, with the entry of a sound element.
C13_FailuresAbsorbedLocally ==
    /\ pc \in {"contexts", "units", "scan", "done"}
    /\ pc = "done" <=> todo = <<>>
    /\ pc = "done" => DOMAIN metrics = MetricNames
    /\ SoundEntriesKept

\* C13 witness: the root leaves ifrs-full undeclared, context c2 has an
\* unparseable date, one revenue element fails (undeclared context, year-less
\* context or non-numeric text) and another is sound but for its undeclared
\* unit; parse_file returns the series of the sound element alone.
C13_Witness ==
    /\ pc = "done"
    /\ "ifrs-full" \notin DOMAIN nsmap
    /\ EndDateOf(ctxDecls[2]) = NotADate
    /\ Len(facts) = 2
    /\ \E a, b \in 1..2 :
          /\ facts[a].local = "NetSales" /\ facts[b].local = "NetSales"
          /\ facts[a].contextRef \in {Some("c2"), Some("c3")} \/ facts[a].text = NotANumber
          /\ facts[b].contextRef = Some("c1") /\ facts[b].unitRef = Some("u2")
    /\ metrics["revenue"] = <<[year |-> Some(2023), value |-> Some([m |-> 200, e |-> 0]),
                               unit |-> None, period_type |-> "duration"]>>

\* the expiry of the most recent set call of the key: its time plus its hours,
\* a negative number of hours counting as none
ExpiryOf(key) ==
    lastSet[key].at
        + (IF lastSet[key].ttl_hours > 0 THEN lastSet[key].ttl_hours ELSE 0) * 3600

\* C19: a get of a key never set returns None; a get of a key returns the value
\* of the key's most recent set when the time of the get has not passed that
\* set's expiry; a get after the expiry returns None and leaves no file of the
\* key.  So no get returns a value whose expiry lies in the past.
C19_CacheTtl ==
    (cacheCall # <<>> /\ cacheCall.op = "get") =>
        IF cacheCall.key \notin DOMAIN lastSet
        THEN cacheCall.ret = None
        ELSE IF cacheCall.at <= ExpiryOf(cacheCall.key)
             THEN cacheCall.ret = Some(lastSet[cacheCall.key].value)
             ELSE /\ cacheCall.ret = None
                  /\ _path_for_key(cacheCall.key) \notin DOMAIN files

\* C19 witness: k1 was set for one hour and a get one and a half hours later
\* returned None and removed the file, while the file of k2 is still there.
C19_Witness ==
    /\ cacheCall # <<>> /\ cacheCall.op = "get" /\ cacheCall.key = "k1"
    /\ "k1" \in DOMAIN lastSet /\ lastSet["k1"].ttl_hours = 1
    /\ cacheCall.at = lastSet["k1"].at + 5400
    /\ cacheCall.ret = None
    /\ DOMAIN files = {_path_for_key("k2")}

\* core is the code without its leading and trailing whitespace
IsStrippedOf(core, code) ==
    /\ \E a, b \in 0..Len(code) :
          /\ a + Len(core) + b = Len(code)
          /\ \A i \in 1..a : code[i] = " "
          /\ \A i \in 1..b : code[Len(code) + 1 - i] = " "
          /\ core = SubSeq(code, a + 1, a + Len(core))
    /\ core # <<>> => (core[1] # " " /\ core[Len(core)] # " ")

\* C18: for a blank code _to_yfinance_symbol raises ValueError; for any other
\* code it returns a symbol ending in ".T": the stripped code itself when that
\* ends in ".T", the stripped code followed by ".T" otherwise; and handed its
\* own result it returns the same symbol.
C18_SymbolSuffix ==
    /\ pricePc \in {"returned", "raised", "again"} =>
          IF \A i \in 1..Len(priceCode) : priceCode[i] = " "
          THEN symbol.error = "ValueError" /\ pricePc = "raised"
          ELSE /\ symbol.error = ""
               /\ Len(symbol.value) >= 2
               /\ symbol.value[Len(symbol.value) - 1] = "."
               /\ symbol.value[Len(symbol.value)] = "T"
               /\ \/ IsStrippedOf(symbol.value, priceCode)
                  \/ /\ IsStrippedOf(SubSeq(symbol.value, 1, Len(symbol.value) - 2), priceCode)
                     /\ \A core \in SeqsUpTo(CodeChars, Len(priceCode)) :
                           IsStrippedOf(core, priceCode) => ~EndsWith(core, <<".", "T">>)
    /\ pricePc = "again" => symbolAgain = symbol

\* C18 witness: a code with surrounding blanks that does not end in ".T" got the
\* suffix, and the result handed in again came back unchanged.
C18_Witness ==
    /\ pricePc = "again"
    /\ priceCode = <<" ", "7", " ">>
    /\ symbol.value = <<"7", ".", "T">>
    /\ symbolAgain.value = <<"7", ".", "T">>

\* the input filings, by index, with the rank of their filing date (a filing
\* without filing date ranks last) and their fiscal year: the stated one, else
\* the year of the report date, else the year of the filing date
Filings == 1..Len(recent.form)

FiledRank(i) ==
    CASE recent.filed[i] = Some(F2023) -> 3
      [] recent.filed[i] = Some(F2022) -> 2
      [] recent.filed[i] = Some(F2021) -> 1
      [] OTHER -> 0

FiscalYearOf(i) ==
    IF recent.fy[i] # None THEN recent.fy[i]
    ELSE IF recent.reportDate[i] = Some(R2023) THEN Some(2023)
    ELSE CASE recent.filed[i] = Some(F2023) -> Some(2023)
           [] recent.filed[i] = Some(F2022) -> Some(2022)
           [] recent.filed[i] = Some(F2021) -> Some(2021)
           [] OTHER -> None

FiscalYears == {FiscalYearOf(i) : i \in Filings} \ {None}

\* the rank of the most recent filing of fiscal year y
LatestRank(y) ==
    CHOOSE r \in 0..3 :
        /\ \E i \in Filings : FiscalYearOf(i) = y /\ FiledRank(i) = r
        /\ \A i \in Filings : FiscalYearOf(i) = y => FiledRank(i) <= r

\* C20: fetch_recent_filings returns at most `years` records (as many as there
\* are fiscal years, up to `years`), each a filing of the input with its fiscal
\* year, the fiscal years present, pairwise distinct and ascending; the record
\* of a fiscal year is a most recently filed filing of that year, and no fiscal
\* year left out has a filing more recent than the latest filing of a year
\* chosen.
C20_RecentFiscalYears ==
    secPc = "returned" =>
        LET n == Len(secResult)
            fiscal(k) == secResult[k].meta.fiscal_year
            chosen == {fiscal(k) : k \in 1..n}
        IN  /\ n <= Max(secYears, 0)
            /\ n = Min(Max(secYears, 0), Cardinality(FiscalYears))
            /\ \A k \in 1..n : fiscal(k) # None
            /\ \A k, l \in 1..n : k < l => fiscal(k)[1] < fiscal(l)[1]
            /\ \A k \in 1..n : \E i \in Filings :
                  /\ secResult[k].meta.accession_number = Some(i)
                  /\ secResult[k].meta.filed = recent.filed[i]
                  /\ fiscal(k) = FiscalYearOf(i)
                  /\ FiledRank(i) = LatestRank(fiscal(k))
            /\ \A y \in chosen : \A z \in FiscalYears \ chosen :
                  LatestRank(z) <= LatestRank(y)

\* C20 witness: filings of the fiscal years 2021 and 2022, the 2022 one filed
\* twice; one year is asked for and the result is the later 2022 filing alone.
C20_Witness ==
    /\ secPc = "returned"
    /\ secYears = 1
    /\ FiscalYears = {Some(2021), Some(2022)}
    /\ \E i, j \in Filings :
          /\ i < j /\ FiscalYearOf(i) = Some(2022) /\ FiscalYearOf(j) = Some(2022)
          /\ FiledRank(i) < FiledRank(j)
          /\ Len(secResult) = 1
          /\ secResult[1].meta.accession_number = Some(j)
          /\ secResult[1].meta.fiscal_year = Some(2022)
    /\ downloadLimit = Some(1)

\* the passes of the loop made so far that merged a filing: the row has a docID
\* and a primary file, and the file is well-formed
Merged ==
    {i \in 1..Len(listing) :
        /\ i < rowIdx
        /\ listing[i].docID # None
        /\ listing[i].xbrl # None
        /\ listing[i].xbrl[1].wellFormed}

\* the passes so far over a filing whose primary file is not well-formed
Invalid ==
    {i \in 1..Len(listing) :
        /\ i < rowIdx
        /\ listing[i].docID # None
        /\ listing[i].xbrl # None
        /\ ~listing[i].xbrl[1].wellFormed}

\* the entries of a series of a year
EntriesOf(series, year) ==
    {series[k] : k \in {n \in 1..Len(series) : series[n].year = Some(year)}}

\* the metrics of the other filings: per metric and year the entry of the last
\* merged filing that reports it, in ascending order of year, no year twice
IsMergeOfOthers(result) ==
    LET parsed == [i \in Merged |-> ParseFile(listing[i].xbrl[1].doc)]
        Reporting(metric, year) ==
            {i \in Merged : EntriesOf(parsed[i][metric], year) # {}}
    IN  /\ DOMAIN result = IF Merged = {} THEN {} ELSE MetricNames
        /\ \A metric \in DOMAIN result :
              LET series == result[metric]
              IN  /\ \A a, b \in 1..Len(series) :
                        a < b => /\ series[a].year # None
                                 /\ series[b].year # None
                                 /\ series[a].year[1] < series[b].year[1]
                  /\ \A a \in 1..Len(series) :
                        /\ series[a].year # None
                        /\ Reporting(metric, series[a].year[1]) # {}
                        /\ LET last == CHOOSE i \in Reporting(metric, series[a].year[1]) :
                                          \A j \in Reporting(metric, series[a].year[1]) : j <= i
                           IN  series[a] \in EntriesOf(parsed[last][metric], series[a].year[1])
                  /\ \A i \in Merged : \A k \in 1..Len(parsed[i][metric]) :
                        parsed[i][metric][k].year \in YearsOf(series)

\* C14: when one of several listed filings is a document that is not well-formed,
\* fetch_recent_filings does not fail: it skips that filing, and what it returns
\* is the merged metrics of the other filings
C14_InvalidFilingSkipped ==
    (Len(listing) >= 2 /\ Invalid # {} /\ Merged # {})
        => /\ fetchPc # "raised"
           /\ fetchPc = "returned" => fetchResult = Some(fetched) /\ IsMergeOfOthers(fetched)

\* C15: after any number of merges in listing order, every metric's series has
\* one entry per year at most, in ascending order of year, and of each metric
\* and year the entry is the one of the most recently merged filing that reports
\* that year
C15_MergedSeries ==
    fetchPc \in {"rows", "raised"} \/ (fetchPc = "returned" /\ listing # <<>>)
        => IsMergeOfOthers(fetched)

\* two filings merged, the second reporting the revenue of 2023 again: the
\* revenue of 2022 is the first filing's, the revenue of 2023 the second's
C15_Witness ==
    /\ fetchPc = "returned"
    /\ Len(listing) = 2
    /\ listing[1].docID = Some("A")
    /\ listing[2].docID = Some("B")
    /\ Len(fetched["revenue"]) = 2
    /\ fetched["revenue"][1].year = Some(2022)
    /\ fetched["revenue"][1].value = Some([m |-> 100, e |-> 0])
    /\ fetched["revenue"][2].year = Some(2023)
    /\ fetched["revenue"][2].value = Some([m |-> 100, e |-> 0])
    /\ fetched["operating_income"] = <<>>

\* the code has a mapping entry with an edinet_code
IsMapped ==
    /\ jpCode \in DOMAIN mapping
    /\ mapping[jpCode].edinet_code # None
    /\ mapping[jpCode].edinet_code[1] # <<>>

\* C17: with years > 0 and no cache hit, list_documents is called with the
\* edinet_code of the code's mapping entry and use_security_code False when the
\* entry has one; otherwise with the code itself, and use_security_code is True
\* exactly when the code is digits alone
C17_LookupRouting ==
    fetchPc = "rows"
        => /\ lastCall # <<>>
           /\ IF IsMapped
              THEN /\ lastCall[1].code = mapping[jpCode].edinet_code[1]
                   /\ lastCall[1].use_security_code = FALSE
              ELSE /\ lastCall[1].code = jpCode
                   /\ lastCall[1].use_security_code
                          <=> \A n \in 1..Len(jpCode) : jpCode[n] \in Digits

\* code 7203, mapped to E05653, is looked up by E05653 and not as a security
\* code, in a call that went by the cache without a hit
C17_Witness ==
    /\ fetchPc = "rows"
    /\ hasCache
    /\ cacheCall.op = "get"
    /\ jpCode = Code7203
    /\ IsMapped
    /\ lastCall = Some([code |-> CodeE05653, use_security_code |-> FALSE, limit |-> jpYears])

\* code 7203 without an entry with edinet_code is looked up as a security code
C17_WitnessNumeric ==
    /\ fetchPc = "rows"
    /\ jpCode = Code7203
    /\ ~IsMapped
    /\ lastCall[1].use_security_code = TRUE

\* the point without its yoy field
WithoutYoy(point) == [year |-> point.year, value |-> point.value, unit |-> point.unit]

\* how many times the point occurs in the series
Occurrences(series, point) == Cardinality({i \in 1..Len(series) : series[i] = point})

\* the yoy the point at position a of the enriched series is to carry: none for
\* the first point, for a point without value and for one whose most recent
\* preceding present value is missing or zero, else the change against that value
\* over its magnitude
ExpectedYoy(series, a) ==
    LET earlier == {b \in 1..(a - 1) : series[b].value # None}
        recent_ == CHOOSE b \in earlier : \A c \in earlier : c <= b
    IN  IF a = 1 \/ series[a].value = None \/ earlier = {} THEN None
        ELSE IF series[recent_].value[1] = 0 THEN None
        ELSE Some([num |-> series[a].value[1] - series[recent_].value[1],
                   den |-> IF series[recent_].value[1] < 0 THEN -series[recent_].value[1]
                           ELSE series[recent_].value[1]])

\* C21: compute_yoy returns a dict of the keys of its input; each series is the
\* input series' points, as many, in ascending order of year, each with a yoy
\* field, which is absent for the first point, for a point without value and for
\* one whose most recent preceding present value is missing or zero, and is
\* otherwise computed against that value
C21_YoyOfSeries ==
    yoyPc = "returned"
        => /\ yoyResult # None
           /\ DOMAIN yoyResult[1] = DOMAIN yoyInput
           /\ \A metric \in DOMAIN yoyInput :
                 LET series == yoyResult[1][metric]
                 IN  /\ Len(series) = Len(yoyInput[metric])
                     /\ \A a \in 1..Len(series) :
                           /\ Occurrences([i \in 1..Len(series) |-> WithoutYoy(series[i])],
                                          WithoutYoy(series[a]))
                                  = Occurrences(yoyInput[metric], WithoutYoy(series[a]))
                           /\ "yoy" \in DOMAIN series[a]
                           /\ series[a].yoy = ExpectedYoy(series, a)
                     /\ \A a, b \in 1..Len(series) :
                           (a < b /\ series[a].year # None /\ series[b].year # None)
                               => series[a].year[1] <= series[b].year[1]

\* a series handed over out of order, whose point without value lies between
\* the two with one: the last point's yoy is against the first's value
C21_Witness ==
    /\ yoyPc = "returned"
    /\ DOMAIN yoyInput = {"revenue"}
    /\ Len(yoyInput["revenue"]) = 3
    /\ yoyInput["revenue"][1].year = Some(2023) /\ yoyInput["revenue"][1].value = None
    /\ yoyInput["revenue"][2].year = Some(2022) /\ yoyInput["revenue"][2].value = Some(2)
    /\ yoyInput["revenue"][3].year = Some(2023) /\ yoyInput["revenue"][3].value = Some(-4)
    /\ yoyResult[1]["revenue"][1].yoy = None
    /\ yoyResult[1]["revenue"][2].yoy = None
    /\ yoyResult[1]["revenue"][3].value = Some(-4)
    /\ yoyResult[1]["revenue"][3].yoy = Some([num |-> -6, den |-> 2])

\* the processes that call set, and the values they write
Setters == {p \in RaceProcs : raceProcs[p].op = "set"}
ValuesSet == {raceProcs[p].value : p \in Setters}

\* every call has finished, and no payload written has expired
AllFinished == \A p \in RaceProcs : raceProcs[p].pc \in {"done", "raised"}
NoneExpired ==
    \A p \in Setters :
        raceProcs[p].payload # None /\ ~Expired(raceProcs[p].payload[1], raceNow)

\* C22: whatever the interleaving of set and get calls of one key by concurrent
\* processes, no set ends in an error, a get returns None or the complete value
\* of one of the sets, and when all calls have finished (and nothing written has
\* expired) the key's file holds the value of one of the sets
C22_ConcurrentCache ==
    /\ \A p \in RaceProcs : raceProcs[p].pc # "raised"
    /\ \A p \in RaceProcs :
          (raceProcs[p].op = "get" /\ raceProcs[p].pc = "done")
              => raceProcs[p].ret = None \/ raceProcs[p].ret[1] \in ValuesSet
    /\ (AllFinished /\ Setters # {} /\ NoneExpired)
          => /\ KeyPath \in DOMAIN raceDir
             /\ Loadable(raceInodes[raceDir[KeyPath]])
             /\ LoadsText(raceInodes[raceDir[KeyPath]]).value \in ValuesSet

\* this call has the code and the years of the call before it, which returned
IsRepeatedCall == hasCache /\ prevFetch # None

\* C23: with a cache, a call of fetch_recent_filings that follows a completed
\* call of the same code and years before the entry expires does not come to
\* list_documents, to a download or to the parser, and returns what the first
\* call returned, whatever that was
C23_SecondCallFromCache ==
    IsRepeatedCall
        => /\ fetchPc \in {"call", "returned"}
           /\ fetchPc = "returned" => fetchResult = prevFetch

\* the places of the alerts of the call's id among the alerts before the call
PlacesOfId ==
    {i \in 1..Len(alertCall.before) :
        IF "id" \in DOMAIN alertCall.before[i]
        THEN alertCall.alert_id = Some(alertCall.before[i]["id"])
        ELSE alertCall.alert_id = None}

\* the alerts stored after the call
StoredNow == load_alerts(alertsFile)

\* C25: used by one caller at a time, delete_alert(id) removes the alerts of
\* that id, all of them and no other, the rest staying in their order;
\* update_alert(id, changes) returns True exactly when an alert of that id is
\* stored, changes the first such alert alone, in the keys whose new value is
\* not None alone, and leaves the store as it was when it returns False
C25_DeleteAndUpdate ==
    /\ (alertCall # <<>> /\ alertCall.op = "delete")
          => LET kept == (1..Len(alertCall.before)) \ PlacesOfId
             IN  /\ Len(StoredNow) = Cardinality(kept)
                 /\ \A i \in kept :
                       StoredNow[Cardinality({j \in kept : j <= i})] = alertCall.before[i]
    /\ (alertCall # <<>> /\ alertCall.op = "update")
          => /\ alertCall.ret = Some(PlacesOfId # {})
             /\ PlacesOfId = {} => alertsFile = alertCall.file
             /\ PlacesOfId # {} =>
                   LET first == CHOOSE i \in PlacesOfId : \A j \in PlacesOfId : i <= j
                       was == alertCall.before[first]
                       is == StoredNow[first]
                       put == {key \in DOMAIN alertCall.changes :
                                  alertCall.changes[key] # None}
                   IN  /\ Len(StoredNow) = Len(alertCall.before)
                       /\ \A i \in 1..Len(StoredNow) :
                             i # first => StoredNow[i] = alertCall.before[i]
                       /\ DOMAIN is = DOMAIN was \cup put
                       /\ \A key \in put : is[key] = alertCall.changes[key][1]
                       /\ \A key \in DOMAIN was \ put : is[key] = was[key]

\* two alerts of id "a" are stored; an update of "a" with a threshold and a note
\* of None changed the threshold of the first, and nothing else
C25_Witness ==
    /\ alertCall # <<>>
    /\ alertCall.op = "update"
    /\ alertCall.alert_id = Some("a")
    /\ alertCall.changes = [threshold |-> Some(20), note |-> None]
    /\ Len(alertCall.before) = 2
    /\ DictGet(alertCall.before[1], "id") = Some("a") /\ alertCall.before[1].threshold = 30
    /\ DictGet(alertCall.before[2], "id") = Some("a") /\ alertCall.before[2].threshold = 40
    /\ alertCall.ret = Some(TRUE)
    /\ StoredNow[1].threshold = 20 /\ StoredNow[1].note = ""
    /\ StoredNow[2].threshold = 40

\* a delete_alert of the id was issued by one of the processes
DeleteIssued(id) ==
    \E q \in AlertProcs : alertProcs[q].op = "delete" /\ alertProcs[q].alert_id = Some(id)

\* C24: whatever the interleaving of concurrent add_alert, update_alert and
\* delete_alert calls, once they have finished every alert that an add_alert
\* returned is among the alerts load_alerts gives, unless a delete_alert of its
\* id was issued
C24_NoLostAlert ==
    (\A p \in AlertProcs : alertProcs[p].pc = "done")
        => \A p \in AlertProcs :
              (alertProcs[p].op = "add" /\ ~DeleteIssued(alertProcs[p].ret[1].id))
                  => \E i \in 1..Len(StoredNow) : StoredNow[i] = alertProcs[p].ret[1]

\* the holdings in the file, and those in it before the latest call
HeldNow == portfolioFile.holdings
HeldBefore == portfolioCall.file.holdings

\* the ticker of the latest call, normalised, is blank
BlankTicker == _normalize_ticker(portfolioCall.ticker) = <<>>

\* the places of the holdings of the latest call's ticker before the call
PlacesHeld ==
    {i \in 1..Len(HeldBefore) :
        _normalize_ticker(HeldBefore[i].ticker) = _normalize_ticker(portfolioCall.ticker)}

\* C26: from the empty store on, after any sequence of upsert_holding and
\* delete_holding calls no two holdings have the same normalised ticker, every
\* holding has shares above 0, and no two have the same id; an upsert of a ticker
\* that is held keeps the holding's id and replaces its shares alone; a call is
\* rejected with ValueError when the ticker is blank or the shares are not above
\* 0, and leaves the store as it was
C26_PortfolioInvariant ==
    /\ \A i, j \in 1..Len(HeldNow) :
          i # j => /\ _normalize_ticker(HeldNow[i].ticker) # _normalize_ticker(HeldNow[j].ticker)
                   /\ HeldNow[i].id # HeldNow[j].id
    /\ \A i \in 1..Len(HeldNow) : HeldNow[i].shares > 0
    /\ (portfolioCall # <<>> /\ portfolioCall.op = "upsert")
          => /\ portfolioCall.error = "ValueError" <=> (BlankTicker \/ portfolioCall.shares <= 0)
             /\ portfolioCall.error = "ValueError" => portfolioFile = portfolioCall.file
             /\ (portfolioCall.error = "" /\ PlacesHeld # {})
                   => /\ Len(HeldNow) = Len(HeldBefore)
                      /\ \A i \in 1..Len(HeldNow) :
                            IF i \in PlacesHeld
                            THEN /\ HeldNow[i].id = HeldBefore[i].id
                                 /\ HeldNow[i].ticker = HeldBefore[i].ticker
                                 /\ HeldNow[i].shares = portfolioCall.shares
                                 /\ portfolioCall.ret = Some(HeldNow[i])
                            ELSE HeldNow[i] = HeldBefore[i]

\* 7203 was held with one share beside another holding; upsert_holding of
\* "7203.t" with two shares changed the shares of that holding, whose id stayed
C26_Witness ==
    /\ portfolioCall # <<>>
    /\ portfolioCall.op = "upsert"
    /\ portfolioCall.ticker = <<"7", "2", "0", "3", ".", "t">>
    /\ portfolioCall.shares = 2
    /\ Len(HeldBefore) = 2
    /\ HeldBefore[1] = [id |-> "u1", ticker |-> <<"7", "2", "0", "3">>, shares |-> 1]
    /\ HeldNow[1] = [id |-> "u1", ticker |-> <<"7", "2", "0", "3">>, shares |-> 2]
    /\ HeldNow[2] = HeldBefore[2]

\* max(limit * 400, 400)
MostDays == IF edArgs.limit * 400 > 400 THEN edArgs.limit * 400 ELSE 400

\* the row's code, by security code or by EDINET code as the call asks, is the
\* target code (leading zeros of a security code and the case of an EDINET code
\* apart)
MatchesTarget(row) ==
    LET candidate == IF edArgs.use_security_code THEN row.secCode ELSE row.edinetCode
    IN  /\ candidate # None
        /\ _normalize_code(candidate[1], edArgs.use_security_code)
               = _normalize_code(edArgs.code, edArgs.use_security_code)

\* C27: list_documents comes to an end after at most max(limit * 400, 400)
\* daily listings, fetched one day back after the other from today on; what it
\* returns is at most limit rows, no two of one docID, each of the target code
\* and, with form codes given, of one of those forms, the latest submitDateTime
\* first
C27_ListDocuments ==
    /\ edPc \in {"call", "loop", "returned", "raised"}
    /\ edPc # "call" =>
          /\ edFetched <= MostDays
          /\ edFetched = IF edPc = "raised" THEN edOffset + 1 ELSE edOffset
          /\ edMaxDays >= 0
          /\ edPc # "raised" => edFetched + edMaxDays = MostDays
    /\ edPc = "returned" =>
          LET rows == edReturn[1]
          IN  /\ Len(rows) <= edArgs.limit
              /\ \A a \in 1..Len(rows) :
                    /\ rows[a].docID # None
                    /\ MatchesTarget(rows[a])
                    /\ edArgs.form_codes # None
                          => /\ rows[a].docTypeCode # None
                             /\ rows[a].docTypeCode[1] \in edArgs.form_codes[1]
              /\ \A a, b \in 1..Len(rows) :
                    a < b => /\ rows[a].docID # rows[b].docID
                             /\ ~TextLess(SubmitKey(rows[a]), SubmitKey(rows[b]))

\* two rows asked for; today's and yesterday's listing hold the same one row of
\* the code and an allowed form among rows of another form, another code,
\* without docID and without code: 800 days were fetched and the row returned
\* once
C27_Witness ==
    /\ edPc = "returned"
    /\ edArgs.limit = 2
    /\ edArgs.form_codes # None
    /\ edDays[0] = edDays[1]
    /\ Len(edDays[0].results) = 5
    /\ edFetched = 800
    /\ edReturn = Some(<<RowB>>)

\* two rows of the code are listed today, the undated one first: both are
\* returned after one day, the dated one first
C27_WitnessSorted ==
    /\ edPc = "returned"
    /\ edFetched = 1
    /\ edReturn = Some(<<RowA, RowUndated>>)

\* the moment a schedule time occurs on a day
Occurrence(day, t) == Datetime(day, t.hour, t.minute, 0)
NextRunReturned == schedRunAt # None

\* C28: for a non-empty schedule the datetime next_run returns is strictly later
\* than now, at most 24 hours after it, on the hour and minute of one of the
\* schedule times, and no schedule time occurs strictly between now and it; a
\* schedule time that is now counts for the next day, and the result is no later
\* than that.
C28_NextRun ==
    (NextRunReturned /\ schedTimes # <<>>) =>
        LET run_at == schedRunAt[1]
            after == TotalSeconds(run_at) - TotalSeconds(schedNow)
        IN  /\ after > 0
            /\ after <= HoursPerDay * MinutesPerHour * SecondsPerMinute
            /\ \E i \in 1..Len(schedTimes) :
                   run_at = Occurrence(run_at.day, schedTimes[i])
            /\ \A i \in 1..Len(schedTimes) :
                   \A day \in schedNow.day..run_at.day :
                       LET at == TotalSeconds(Occurrence(day, schedTimes[i]))
                       IN  ~(TotalSeconds(schedNow) < at /\ at < TotalSeconds(run_at))
            /\ \A i \in 1..Len(schedTimes) :
                   schedNow = Occurrence(schedNow.day, schedTimes[i])
                       => /\ schedCandidates[i] = Occurrence(schedNow.day + 1, schedTimes[i])
                          /\ ~DtLess(schedCandidates[i], run_at)

\* next_run at 07:00:00 sharp of a schedule of 07:00 alone returns 07:00 of the
\* day after
C28_Witness ==
    /\ NextRunReturned
    /\ schedTimes = <<dt_time(7, 0)>>
    /\ schedNow = Datetime(0, 7, 0, 0)
    /\ schedRunAt = Some(Datetime(1, 7, 0, 0))

\* the loop of main has come round: next_run returns for the clock read after a
\* run of the alerts
C28_WitnessLoop ==
    /\ NextRunReturned
    /\ schedRuns > 0
    /\ Len(schedTimes) = 2
    /\ schedRunAt[1].day = schedNow.day

\* the alerts run_alerts finds stored, and their normalized tickers
RsiStored == load_alerts(alertsFile)
StoredTicker(i) == normalize_ticker_for_display(TickerOrEmpty(RsiStored[i]))
\* the tickers a run monitors
Monitored ==
    IF RsiStored # <<>>
    THEN {StoredTicker(i) : i \in 1..Len(RsiStored)} \ {<<>>}
    ELSE {normalize_ticker_for_display(rsiTickers[i]) : i \in 1..Len(rsiTickers)}
\* the threshold of a monitored ticker
ThresholdOf(ticker) ==
    IF RsiStored # <<>>
    THEN LET last == CHOOSE i \in 1..Len(RsiStored) :
                         /\ StoredTicker(i) = ticker
                         /\ \A j \in (i + 1)..Len(RsiStored) : StoredTicker(j) # ticker
         IN  RsiStored[last].threshold
    ELSE rsiConfig.rsi_alert_threshold
AtOrBelow(ticker) ==
    /\ ticker \in DOMAIN rsiMarket
    /\ rsiMarket[ticker] # None
    /\ rsiMarket[ticker][1] <= ThresholdOf(ticker)
RsiConfigured ==
    rsiConfig.line_channel_access_token # <<>> /\ rsiConfig.line_target_user_id # <<>>

\* C29: a run of run_alerts hands at most one message to the notifier; a run
\* with token and user id configured that has ended has handed one exactly when
\* the latest RSI of some monitored ticker is at or below the ticker's threshold,
\* and has checked exactly the monitored tickers, each once and against its
\* threshold: with alerts stored, the normalized tickers of the stored alerts,
\* each against the threshold of the last stored alert of that ticker, whatever
\* tickers were passed; with none stored, the passed tickers, normalized, against
\* the configured default. A run without token or user id exits before it checks
\* or sends anything.
C29_RunAlerts ==
    /\ rsiPc # "idle" => Len(rsiSent) <= 1
    /\ rsiPc = "exited" => ~RsiConfigured /\ rsiChecked = <<>> /\ rsiSent = <<>>
    /\ rsiPc = "done" =>
           /\ RsiConfigured
           /\ Len(rsiSent) = 1 <=> \E ticker \in Monitored : AtOrBelow(ticker)
           /\ {rsiChecked[i].ticker : i \in 1..Len(rsiChecked)} = Monitored
           /\ Len(rsiChecked) = Cardinality(Monitored)
           /\ \A i \in 1..Len(rsiChecked) :
                  rsiChecked[i].threshold = ThresholdOf(rsiChecked[i].ticker)
           /\ rsiSent # <<>> =>
                  {rsiSent[1][i].ticker : i \in 1..Len(rsiSent[1])}
                      = {ticker \in Monitored : AtOrBelow(ticker)}

\* two alerts of 7203 are stored, of threshold 30 and then, written 7203.t, of
\* 40; X is passed and left unchecked; the RSI of 7203 is 40 and one message is
\* sent
C29_Witness ==
    /\ rsiPc = "done"
    /\ Len(RsiStored) = 2
    /\ RsiStored[1].threshold = 30 /\ StoredTicker(1) = T7203
    /\ RsiStored[2].threshold = 40 /\ StoredTicker(2) = T7203
    /\ rsiTickers = <<Tx>>
    /\ rsiMarket[T7203] = Some(40)
    /\ rsiMarket[normalize_ticker_for_display(Tx)] = Some(30)
    /\ rsiChecked = <<[ticker |-> T7203, threshold |-> 40]>>
    /\ Len(rsiSent) = 1

\* no alert is stored; two passed tickers are checked against the default, both
\* are at or below it, and the one message names both
C29_WitnessPassed ==
    /\ rsiPc = "done"
    /\ RsiStored = <<>>
    /\ Len(rsiChecked) = 2
    /\ Len(rsiSent) = 1
    /\ Len(rsiSent[1]) = 2

\* a run without token does not reach the notifier although an RSI is at or
\* below its threshold
C29_WitnessExit ==
    /\ rsiPc = "exited"
    /\ \E ticker \in Monitored : AtOrBelow(ticker)

\* C29 as stated, of every run that has ended: one message is sent exactly when
\* the latest RSI of some monitored ticker is at or below the ticker's threshold
C29_AsStated ==
    rsiPc \in {"done", "exited"} =>
        /\ Len(rsiSent) <= 1
        /\ Len(rsiSent) = 1 <=> \E ticker \in Monitored : AtOrBelow(ticker)

====
